---- MODULE Spec2Model ----
(***************************************************************************)
(* Model of drivers/usb/typec/anx7688.c: the ANX7688 USB-C bridge driver.  *)
(*                                                                         *)
(* The record `anx` holds the fields of struct anx7688 together with the   *)
(* state of the collaborators the driver drives (regulators, the typec     *)
(* port, the role switch, the vbus_in power supply, extcon).  Every        *)
(* function of the driver is an operator from such a record to the record  *)
(* after the call; the results of the register transport and of the other  *)
(* collaborators are inputs (the `e` arguments).  Times are milliseconds.  *)
(***************************************************************************)
EXTENDS Integers, Sequences, FiniteSets, TLC

(* errno values returned by the driver and its collaborators *)
EIO == -5
ENOMEM == -12
EBUSY == -16
ENODEV == -19
EINVAL == -22
ETIMEDOUT == -110

(* program constants *)
FwPolls == 100
SendPolls == 300
PktSize == 32
ConnectDeadlineMs == 3000
SrcCapDeadlineMs == 500
HardRstDeadlineMs == 3000
DisconnectLimitMa == 500
DebounceMs == 10
ProbeDelayMs == 10
HwresetDelayMs == 20
FlashDelayMs == 20
ResumeDelayMs == 50

(* bounds of the model *)
TickMs == 4000      \* ms one clock tick advances
FineTickMs == 5     \* ms one clock tick advances where the debounce is followed
Now == 100000       \* ktime_get(): timestamps are kept relative to the present

VARIABLES
    anx,            \* struct anx7688 and the collaborators it drives
    hist,           \* history: what the last step did (not program state)
    cabledet,       \* level of the cable-detect GPIO
    quiet,          \* ms since cabledet last changed, capped at DebounceMs
    lock,           \* owner of anx7688->lock, "none" when free
    work_pc,        \* position of anx7688_work: "idle", "lock", "locked"
    irq_pc,         \* position of anx7688_irq_status_handler
    user_pc,        \* position of the sysfs/debugfs/typec-ops caller
    rm_pc,          \* position of anx7688_i2c_remove
    work_pending,   \* delayed_work: "idle", "timer" (delay running), "queued"
    work_delay,     \* ms left on the delayed work's timer
    timer_armed,    \* work_timer is pending
    nb_registered,  \* vbus_in_nb is registered
    suspended       \* between anx7688_suspend and anx7688_resume

vars == <<anx, hist, cabledet, quiet, lock, work_pc, irq_pc, user_pc, rm_pc,
          work_pending, work_delay, timer_armed, nb_registered, suspended>>

----------------------------------------------------------------------------
(* Power sequencing                                                        *)

Note(s, tag) == [s EXCEPT !.log = Append(@, tag)]

anx7688_power_enable(s) ==
    Note([s EXCEPT !.flags = @ \cup {"POWERED"}], "power_enable")

anx7688_power_disable(s) ==
    Note([s EXCEPT !.flags = @ \ {"POWERED"}], "power_disable")

----------------------------------------------------------------------------
(* OCM message transport: anx7688_send_ocm_message                         *)
(* e.pre   value read from INTERFACE_SEND before the write (<0: I/O error) *)
(* e.wr    result of the block write                                       *)
(* e.busy  number of polls that read the queue occupied before e.fin       *)
(* e.fin   value read by the first poll that is not > 0 (0 or an error)    *)

(* the value the i-th poll of the queue reads (i from 0) *)
send_poll(e, i) == IF i < e.busy THEN 1 ELSE e.fin

(* for (i = 0; i < 300; i++) { ret = read; if (ret <= 0) return ret; } *)
send_wait(e) ==
    IF \E i \in 0..(SendPolls - 1) : send_poll(e, i) <= 0
    THEN send_poll(e, CHOOSE i \in 0..(SendPolls - 1) :
                          /\ send_poll(e, i) <= 0
                          /\ \A j \in 0..(i - 1) : send_poll(e, j) > 0)
    ELSE ETIMEDOUT

anx7688_send_ocm_message(data_len, e) ==
    IF data_len > PktSize - 3 THEN EINVAL
    ELSE IF e.pre # 0 THEN EBUSY
    ELSE send_wait(e)

(* a send that writes the frame whatever the queue indicator reads *)
send_writes_blind(data_len, e) ==
    IF data_len > PktSize - 3 THEN 0 ELSE 1

(* the number of block writes of the frame one call makes: none when the
   length is refused or the queue indicator does not read 0 *)
send_writes(data_len, e) ==
    IF data_len > PktSize - 3 THEN 0
    ELSE IF e.pre # 0 THEN 0
    ELSE 1

(* a wait loop that polls until the queue drains *)
send_polls_unbounded(data_len, e) ==
    IF send_writes(data_len, e) = 0 THEN 0 ELSE e.busy + 1

(* the number of polls of the queue one call makes *)
send_polls(data_len, e) ==
    IF send_writes(data_len, e) = 0 THEN 0
    ELSE IF e.busy < SendPolls THEN e.busy + 1
    ELSE SendPolls

SendOk == [pre |-> 0, wr |-> 0, busy |-> 0, fin |-> 0]
SendEnvs ==
    { SendOk,
      [SendOk EXCEPT !.busy = 2],
      [SendOk EXCEPT !.pre = 1],
      [SendOk EXCEPT !.pre = EIO],
      [SendOk EXCEPT !.wr = EIO],
      [SendOk EXCEPT !.busy = SendPolls - 1],
      [SendOk EXCEPT !.busy = SendPolls],
      [SendOk EXCEPT !.busy = 1, !.fin = EIO] }

----------------------------------------------------------------------------
(* The device after anx7688_i2c_probe                                      *)

AnxInit(nsrc, nsnk) ==
    [ flags |-> {},                 \* subset of POWERED, CONNECTED, FW_FAILED, PWRSUPPLY_CHANGE
      n_src_caps |-> nsrc,
      n_snk_caps |-> nsnk,
      vbus_on |-> FALSE,
      vconn_on |-> FALSE,
      pd_capable |-> FALSE,
      pd_current_limit |-> 0,
      current_update_deadline |-> 0,
      partner |-> "NULL",           \* "NULL", "PARTNER" or "ERR" (an ERR_PTR)
      pwr_role |-> "SINK",
      data_role |-> "DEVICE",
      input_current_limit |-> 0,
      last_status |-> 0,
      last_cc_status |-> 0,
      last_dp_state |-> 0,
      last_bc_result |-> -1,
      last_extcon_state |-> -1,
      \* collaborators
      port_pwr_role |-> "SINK",
      port_data_role |-> "DEVICE",
      port_pwr_opmode |-> "USB",
      port_vconn_role |-> "SINK",
      role_sw |-> "NONE",           \* usb_role_switch: NONE, HOST, DEVICE
      psy_icl |-> 0,                \* INPUT_CURRENT_LIMIT last written, uA (0: never)
      psy_online |-> 1,             \* ONLINE last written
      psy_bc_enabled |-> 1,         \* USB_BC_ENABLED last written
      vconn_reg |-> 0,              \* net enable count of the vconn regulator
      vbus_reg |-> 0,               \* net enable count of the vbus regulator
      i2c_on |-> TRUE,              \* the i2c supply as the driver last switched it
      extcon_hpd |-> 0,             \* EXTCON_DISP_HDMI state
      n_partners |-> 0,             \* partners registered with the typec class
      limit_since_connect |-> FALSE ]
                                    \* history: pd_current_limit was assigned
                                    \* since Connected was last set

(* History of the last step, kept beside the program state *)
NoHist ==
    [ act |-> "none",               \* name of the step
      log |-> << >>,                \* what the step did, in order
      conn_ret |-> 0,               \* value returned by anx7688_connect
      conn_env |-> << >>,           \* collaborator results given to that connect
      conn_end |-> << >>,           \* the driver's fields when that connect returned
      status_ret |-> 0,             \* value returned by anx7688_update_status
      status_env |-> << >>,         \* collaborator results given to that status update
      recv_ret |-> 0,               \* value returned by anx7688_receive_msg
      pd_ret |-> 0,                 \* value returned by anx7688_handle_pd_message
      upd_env |-> << >>,            \* collaborator results given to the current update
      recv_env |-> << >>,           \* collaborator results given to anx7688_receive_msg
      pd_msg |-> << >>,             \* command and payload handed to anx7688_handle_pd_message
      sent |-> << >> ]              \* cmd, data, frame and result of a message send

(* the record the driver's functions work on: program state and history *)
Join(a, h) ==
    [k \in (DOMAIN a) \cup (DOMAIN h) |-> IF k \in DOMAIN h THEN h[k] ELSE a[k]]
Drv(s) == [k \in (DOMAIN s) \ (DOMAIN NoHist) |-> s[k]]
Hist(s, name) == [k \in DOMAIN NoHist |-> IF k = "act" THEN name ELSE s[k]]

Did(s, tag) == \E i \in 1..Len(s.log) : s.log[i] = tag

----------------------------------------------------------------------------
(* anx7688_connect                                                         *)
(* e.vconn    result of regulator_enable(vconn)                            *)
(* e.fw_late  polls of EEPROM_LOAD_STATUS0 that do not show FW_LOADED      *)
(* e.fwver    result of the firmware version block read                    *)
(* e.regw     results of the ten configuration register writes            *)
(* e.send     collaborator results of the four OCM sends                   *)
(* e.partner  result of typec_register_partner (0, or the PTR_ERR)         *)

(* a firmware wait that never gives up *)
fw_wait_forever(fw_late) == TRUE

(* for (i = 0; i < 100; i++): poll i (from 0) shows FW_LOADED iff i >= fw_late *)
fw_wait(fw_late) == \E i \in 0..(FwPolls - 1) : i >= fw_late

RECURSIVE reg_writes(_, _)
reg_writes(i, rs) ==
    IF i > Len(rs) THEN 0
    ELSE IF rs[i] # 0 THEN rs[i]
    ELSE reg_writes(i + 1, rs)

err_poweroff(s, ret) ==
    [anx7688_power_disable(s) EXCEPT !.conn_ret = ret]

(* err_vconoff that leaves the VCONN rail enabled *)
err_vconoff_keeps_vconn(s, ret) == err_poweroff(s, ret)

err_vconoff(s, ret) ==
    err_poweroff(Note([s EXCEPT !.vconn_reg = @ - 1, !.vconn_on = FALSE],
                      "vconn_disable"), ret)

(* an unregistration that releases nothing *)
typec_unregister_partner_kept(s) == s

typec_unregister_partner(s) ==
    IF s.partner = "PARTNER" THEN [s EXCEPT !.n_partners = @ - 1] ELSE s

connect_partner(s, e, t) ==
    LET u == typec_unregister_partner(s) IN
    IF e.partner # 0
    THEN err_vconoff([u EXCEPT !.partner = "ERR"], e.partner)
    ELSE Note([u EXCEPT !.partner = "PARTNER",
                        !.n_partners = @ + 1,
                        !.current_update_deadline = t + ConnectDeadlineMs,
                        !.flags = @ \cup {"CONNECTED"},
                        !.limit_since_connect = FALSE,
                        !.conn_ret = 0], "partner")

(* the four sends with the sink capabilities sent before the source
   capabilities *)
connect_sends_snk_first(s, e, t) ==
    LET r1 == anx7688_send_ocm_message(4 * s.n_snk_caps, e.send[2])
        r2 == anx7688_send_ocm_message(4 * s.n_src_caps, e.send[1])
        r3 == anx7688_send_ocm_message(16, e.send[3])
        r4 == anx7688_send_ocm_message(4, e.send[4])
    IN  IF r1 # 0 THEN err_vconoff(s, r1)
        ELSE IF r2 # 0 THEN err_vconoff(Note(s, "snk_cap"), r2)
        ELSE IF r3 # 0 THEN err_vconoff(Note(Note(s, "snk_cap"), "src_cap"), r3)
        ELSE IF r4 # 0
             THEN err_vconoff(Note(Note(Note(s, "snk_cap"), "src_cap"),
                                   "dp_snk_identity"), r4)
        ELSE connect_partner(
                 Note(Note(Note(Note(s, "snk_cap"), "src_cap"),
                           "dp_snk_identity"), "svid"), e, t)

connect_sends(s, e, t) ==
    LET r1 == anx7688_send_ocm_message(4 * s.n_src_caps, e.send[1])
        r2 == anx7688_send_ocm_message(4 * s.n_snk_caps, e.send[2])
        r3 == anx7688_send_ocm_message(16, e.send[3])
        r4 == anx7688_send_ocm_message(4, e.send[4])
    IN  IF r1 # 0 THEN err_vconoff(s, r1)
        ELSE IF r2 # 0 THEN err_vconoff(Note(s, "src_cap"), r2)
        ELSE IF r3 # 0 THEN err_vconoff(Note(Note(s, "src_cap"), "snk_cap"), r3)
        ELSE IF r4 # 0
             THEN err_vconoff(Note(Note(Note(s, "src_cap"), "snk_cap"),
                                   "dp_snk_identity"), r4)
        ELSE connect_partner(
                 Note(Note(Note(Note(s, "src_cap"), "snk_cap"),
                           "dp_snk_identity"), "svid"), e, t)

connect_fw_loaded(s, e, t) ==
    IF e.fwver < 0 THEN err_vconoff(s, e.fwver)
    ELSE IF reg_writes(1, e.regw) # 0 THEN err_vconoff(s, reg_writes(1, e.regw))
    ELSE connect_sends(Note(s, "configured"), e, t)

connect_steps(s, e, t) ==
    LET s0 == [s EXCEPT !.last_status = -1, !.last_cc_status = -1,
                        !.last_dp_state = -1, !.conn_env = e]
        s1 == anx7688_power_enable(Note(s0, "connect"))
    IN  IF e.vconn # 0 THEN err_poweroff(s1, e.vconn)
        ELSE LET s2 == Note([s1 EXCEPT !.vconn_reg = @ + 1, !.vconn_on = TRUE],
                            "vconn_enable")
             IN  IF fw_wait(e.fw_late)
                 THEN connect_fw_loaded(Note(s2, "fw_loaded"), e, t)
                 ELSE err_vconoff([s2 EXCEPT !.flags = @ \cup {"FW_FAILED"}],
                                  ETIMEDOUT)

(* the call, with the driver's fields at its return kept in the history *)
anx7688_connect(s, e, t) ==
    LET r == connect_steps(s, e, t)
    IN  [r EXCEPT !.conn_end =
            [ flags |-> r.flags, vconn_on |-> r.vconn_on, partner |-> r.partner,
              n_partners |-> r.n_partners, last_status |-> r.last_status,
              last_cc_status |-> r.last_cc_status,
              last_dp_state |-> r.last_dp_state,
              current_update_deadline |-> r.current_update_deadline ]]

ConnectOk ==
    [ vconn |-> 0, fw_late |-> 6, fwver |-> 2,
      regw |-> <<0, 0, 0, 0, 0, 0, 0, 0, 0, 0>>,
      send |-> <<SendOk, SendOk, SendOk, SendOk>>,
      partner |-> 0 ]

(* e with one more collaborator result changed *)
ConnectVariants(e) ==
    {[e EXCEPT !.vconn = ENODEV], [e EXCEPT !.fwver = EIO],
     [e EXCEPT !.partner = ENOMEM]}
    \cup {[e EXCEPT !.fw_late = n] : n \in {0, FwPolls - 1, FwPolls, FwPolls + 1}}
    \cup {[e EXCEPT !.regw[i] = EIO] : i \in 1..Len(e.regw)}
    \cup {[e EXCEPT !.send[i] = x] : i \in 1..Len(e.send), x \in SendEnvs}

----------------------------------------------------------------------------
(* anx7688_set_hdmi_hpd, anx7688_disconnect, anx7688_handle_cable_change   *)

(* a hot-plug signal written whether or not it changed *)
anx7688_set_hdmi_hpd_always(s, state) ==
    Note([s EXCEPT !.extcon_hpd = state, !.last_extcon_state = state], "hpd")

anx7688_set_hdmi_hpd(s, state) ==
    IF s.last_extcon_state # state
    THEN Note([s EXCEPT !.extcon_hpd = state, !.last_extcon_state = state], "hpd")
    ELSE s

(* disconnect_rails that leaves both rails as they are *)
disconnect_rails_skipped(s) == s

disconnect_rails(s) ==
    LET a == IF s.vconn_on
             THEN [s EXCEPT !.vconn_reg = @ - 1, !.vconn_on = FALSE] ELSE s
    IN  IF a.vbus_on
        THEN [a EXCEPT !.vbus_reg = @ - 1, !.vbus_on = FALSE] ELSE a

anx7688_disconnect(s) ==
    LET s1 == anx7688_set_hdmi_hpd(
                  [Note(s, "disconnect") EXCEPT !.current_update_deadline = 0], 0)
        s2 == anx7688_power_disable(disconnect_rails(s1))
        s3 == [typec_unregister_partner([s2 EXCEPT !.pd_capable = FALSE])
                  EXCEPT !.partner = "NULL"]
    IN  [s3 EXCEPT !.pwr_role = "SINK",
                   !.data_role = "DEVICE",
                   !.port_pwr_role = "SINK",
                   !.port_data_role = "DEVICE",
                   !.port_pwr_opmode = "USB",
                   !.port_vconn_role = "SINK",
                   !.role_sw = "NONE",
                   !.psy_icl = DisconnectLimitMa * 1000,
                   !.psy_online = 0,
                   !.psy_bc_enabled = 1,
                   !.flags = @ \ {"CONNECTED"}]

(* a re-evaluation that follows the Connected flag alone *)
anx7688_handle_cable_change_blind(s, cd, e, t) ==
    IF "CONNECTED" \notin s.flags THEN anx7688_connect(s, e, t)
    ELSE anx7688_disconnect(s)

anx7688_handle_cable_change(s, cd, e, t) ==
    LET connected == "CONNECTED" \in s.flags IN
    IF cd /\ ~connected THEN anx7688_connect(s, e, t)
    ELSE IF ~cd /\ connected THEN anx7688_disconnect(s)
    ELSE s

----------------------------------------------------------------------------
(* Register values: bit n of an int as the C operator & sees it            *)

RECURSIVE Pow2(_)
Pow2(n) == IF n = 0 THEN 1 ELSE 2 * Pow2(n - 1)

Bit(v, n) ==
    IF v >= 0 THEN (v \div Pow2(n)) % 2
    ELSE 1 - ((((0 - v) - 1) \div Pow2(n)) % 2)

----------------------------------------------------------------------------
(* anx7688_update_status                                                   *)
(* e.status, e.cc_status, e.dp_state, e.dp_substate  register reads        *)
(* e.vbus_ret, e.vconn_ret   result of the regulator enable/disable        *)
(* e.role_ret                result of usb_role_switch_set_role            *)

update_status_vbus(s, e) ==
    LET vbus_on == Bit(e.status, 3) = 1 IN
    IF s.vbus_on = vbus_on THEN s
    ELSE IF e.vbus_ret # 0 THEN [s EXCEPT !.status_ret = e.vbus_ret]
    ELSE [s EXCEPT !.vbus_reg = IF vbus_on THEN @ + 1 ELSE @ - 1,
                   !.pwr_role = IF vbus_on THEN "SOURCE" ELSE "SINK",
                   !.port_pwr_role = IF vbus_on THEN "SOURCE" ELSE "SINK",
                   !.vbus_on = vbus_on]

update_status_vconn(s, e) ==
    LET vconn_on == Bit(e.status, 2) = 1 IN
    IF s.vconn_on = vconn_on THEN s
    ELSE IF e.vconn_ret # 0 THEN [s EXCEPT !.status_ret = e.vconn_ret]
    ELSE [s EXCEPT !.vconn_reg = IF vconn_on THEN @ + 1 ELSE @ - 1,
                   !.port_vconn_role = IF vconn_on THEN "SOURCE" ELSE "SINK",
                   !.vconn_on = vconn_on]

update_status_data_role(s, e) ==
    LET dr_dfp == Bit(e.status, 5) = 1
        want == IF dr_dfp THEN "HOST" ELSE "DEVICE"
        s1 == [s EXCEPT !.data_role = want, !.port_data_role = want]
    IN  IF s1.role_sw = want THEN s1
        ELSE IF e.role_ret # 0 THEN [s1 EXCEPT !.status_ret = e.role_ret]
        ELSE Note([s1 EXCEPT !.role_sw = want], "role_switch")

update_status_cache(s, e) ==
    LET dp == e.dp_state * 256 + e.dp_substate
        a == IF s.last_status = -1 \/ s.last_status # e.status
             THEN [s EXCEPT !.last_status = e.status] ELSE s
        b == IF a.last_cc_status = -1 \/ a.last_cc_status # e.cc_status
             THEN [a EXCEPT !.last_cc_status = e.cc_status] ELSE a
    IN  IF b.last_dp_state = -1 \/ b.last_dp_state # dp
        THEN [b EXCEPT !.last_dp_state = dp] ELSE b

anx7688_update_status(s, e) ==
    LET s0 == Note([s EXCEPT !.status_ret = 0, !.status_env = e], "update_status") IN
    IF e.status < 0 THEN [s0 EXCEPT !.status_ret = e.status]
    ELSE IF e.cc_status < 0 THEN [s0 EXCEPT !.status_ret = e.cc_status]
    ELSE IF e.dp_state < 0 THEN [s0 EXCEPT !.status_ret = e.dp_state]
    ELSE IF e.dp_substate < 0 THEN [s0 EXCEPT !.status_ret = e.dp_substate]
    ELSE LET s1 == update_status_cache(
                       anx7688_set_hdmi_hpd(s0, IF e.dp_state >= 3 THEN 1 ELSE 0), e)
             s2 == update_status_vbus(s1, e)
         IN  IF s2.status_ret # 0 THEN s2
             ELSE LET s3 == update_status_vconn(s2, e) IN
                  IF s3.status_ret # 0 THEN s3
                  ELSE update_status_data_role(s3, e)

----------------------------------------------------------------------------
(* OCM frames and anx7688_receive_msg / anx7688_handle_pd_message          *)

RECURSIVE SumBytes(_, _)
SumBytes(pkt, n) == IF n = 0 THEN 0 ELSE (SumBytes(pkt, n - 1) + pkt[n]) % 256

(* pkt[n] = 0; for (i = 0; i < n; i++) pkt[n] -= pkt[i], in u8 arithmetic *)
RECURSIVE frame_checksum(_, _)
frame_checksum(pkt, n) ==
    IF n = 0 THEN 0 ELSE (frame_checksum(pkt, n - 1) - pkt[n]) % 256

(* a frame whose last byte is the sum of the others *)
ocm_frame_plain_sum(cmd, data) ==
    LET body == <<(Len(data) + 1) % 256, cmd % 256>> \o data
    IN  body \o <<SumBytes(body, Len(body))>>

(* the frame built in anx7688_send_ocm_message: len+1, cmd, data, checksum *)
ocm_frame(cmd, data) ==
    LET body == <<(Len(data) + 1) % 256, cmd % 256>> \o data
    IN  body \o <<frame_checksum(body, Len(body))>>

(* a frame as the 32-byte block read from INTERFACE_RECV *)
Block(frame) == [i \in 1..PktSize |-> IF i <= Len(frame) THEN frame[i] ELSE 0]

MSG_PWR_SRC_CAP == 0
MSG_PWR_SNK_CAP == 1
MSG_ACCEPT == 5
MSG_PWR_OBJ_REQ == 22
MSG_HARD_RST == 242

(* power_supply_set_property(vbus_in_supply, prop, val): the property keeps
   its value when the write fails *)
(* C int arithmetic: rdo_max_v, rdo_max_p, pd_current_limit, current_limit
   and val.intval are 32-bit ints.  mul_int(a, b) is a * b as the machine
   computes it, for 0 <= a <= Int32Max and 0 < b < Word16 \div 2: the
   product is formed from the 16-bit halves of a and wraps modulo 2^32 *)
Int32Max == 2147483647
Word16 == 65536

(* a product kept in 16 bits *)
mul_int_short(a, b) == (a * b) % Word16

mul_int(a, b) ==
    LET lo == (a % Word16) * b
        hi == ((a \div Word16) * b + (lo \div Word16)) % Word16
    IN  IF hi >= Word16 \div 2
        THEN (hi - Word16) * Word16 + (lo % Word16)
        ELSE hi * Word16 + (lo % Word16)

(* C division truncates toward zero *)
div_int(a, b) == IF a >= 0 THEN a \div b ELSE -((-a) \div b)

psy_set(s, prop, val, ret) ==
    Note(IF ret = 0 THEN [s EXCEPT ![prop] = val] ELSE s, prop)

(* a report handler that scales the limit by 500 as the power is scaled *)
handle_src_cap_scaled_500(s, len, e, t) ==
    IF len % 4 # 0 THEN s
    ELSE LET s1 == [s EXCEPT !.pd_capable = TRUE] IN
         IF e.max_v < 0 THEN [s1 EXCEPT !.pd_ret = e.max_v]
         ELSE IF e.max_v = 0 THEN [s1 EXCEPT !.pd_ret = EINVAL]
         ELSE IF e.max_p < 0 THEN [s1 EXCEPT !.pd_ret = e.max_p]
         ELSE [s1 EXCEPT !.pd_current_limit = div_int(mul_int(e.max_p, 500), e.max_v),
                         !.limit_since_connect = TRUE,
                         !.current_update_deadline = t + SrcCapDeadlineMs]

(* e.max_v, e.max_p  reads of MAX_VOLTAGE_STATUS and MAX_POWER_STATUS       *)
handle_src_cap(s, len, e, t) ==
    IF len % 4 # 0 THEN s
    ELSE LET s1 == [s EXCEPT !.pd_capable = TRUE] IN
         IF e.max_v < 0 THEN [s1 EXCEPT !.pd_ret = e.max_v]
         ELSE IF e.max_v = 0 THEN [s1 EXCEPT !.pd_ret = EINVAL]
         ELSE IF e.max_p < 0 THEN [s1 EXCEPT !.pd_ret = e.max_p]
         ELSE [s1 EXCEPT !.pd_current_limit = div_int(mul_int(e.max_p, 5000), e.max_v),
                         !.limit_since_connect = TRUE,
                         !.current_update_deadline = t + SrcCapDeadlineMs]

(* a hard-reset handler that does not ask whether the partner speaks PD *)
handle_hard_rst_any_partner(s, e, t) ==
    [psy_set(s, "psy_online", 0, e.psy_ret)
        EXCEPT !.current_update_deadline = t + HardRstDeadlineMs]

(* e.psy_ret  result of the ONLINE property write                           *)
handle_hard_rst(s, e, t) ==
    IF s.pd_capable
    THEN [psy_set(s, "psy_online", 0, e.psy_ret)
             EXCEPT !.current_update_deadline = t + HardRstDeadlineMs]
    ELSE s

(* rdo_index(rdo) = (rdo >> 28) & 7 of the little-endian word in payload
   bytes 0..3: bits 4..6 of payload byte 3, which is pkt[6] here *)
rdo_index(pkt) == (pkt[6] \div 16) % 8

(* a request handler that leaves pd_capable alone *)
handle_obj_req_observe_only(s, len, pkt) ==
    IF len # 4 THEN s
    ELSE IF rdo_index(pkt) >= 1 /\ rdo_index(pkt) <= s.n_src_caps
         THEN Note(s, "pdo_lookup")
         ELSE s

(* pd_capable is set before the length test; the advertised PDO is read
   only for an index within 1..n_src_caps; the replies are commented out *)
handle_obj_req(s, len, pkt) ==
    LET s1 == [s EXCEPT !.pd_capable = TRUE] IN
    IF len # 4 THEN s1
    ELSE IF rdo_index(pkt) >= 1 /\ rdo_index(pkt) <= s.n_src_caps
         THEN Note(s1, "pdo_lookup")
         ELSE s1

(* an interpreter that handles a sink-capability report as it handles a
   source-capability report *)
anx7688_handle_pd_message_caps_alike(s, cmd, len, e, t) ==
    LET s0 == Note([s EXCEPT !.pd_ret = 0], "pd_message") IN
    IF cmd = MSG_PWR_SRC_CAP \/ cmd = MSG_PWR_SNK_CAP
    THEN handle_src_cap(s0, len, e, t)
    ELSE IF cmd = MSG_PWR_OBJ_REQ THEN handle_obj_req(s0, len, e.pkt)
    ELSE IF cmd = MSG_HARD_RST THEN handle_hard_rst(s0, e, t)
    ELSE s0

anx7688_handle_pd_message(s, cmd, len, e, t) ==
    LET s0 == Note([s EXCEPT !.pd_ret = 0], "pd_message") IN
    IF cmd = MSG_PWR_SRC_CAP THEN handle_src_cap(s0, len, e, t)
    ELSE IF cmd = MSG_PWR_OBJ_REQ THEN handle_obj_req(s0, len, e.pkt)
    ELSE IF cmd = MSG_HARD_RST THEN handle_hard_rst(s0, e, t)
    ELSE s0

(* a call that hands over the checksum byte with the payload *)
pd_message_args_with_checksum(pkt) ==
    [cmd |-> pkt[2], data |-> SubSeq(pkt, 3, pkt[1] + 2)]

(* anx7688_handle_pd_message(anx7688, pkt[1], pkt + 2, pkt[0] - 1): the
   command and the payload bytes the interpreter is given *)
pd_message_args(pkt) ==
    [cmd |-> pkt[2], data |-> SubSeq(pkt, 3, pkt[1] + 1)]

(* a receive that trusts the checksum *)
anx7688_receive_msg_unchecked(s, e, t) ==
    LET s0 == Note([s EXCEPT !.recv_ret = 0, !.recv_env = e], "receive_msg")
        pkt == e.pkt
    IN  IF e.rd < 0 THEN [s0 EXCEPT !.recv_ret = e.rd]
        ELSE IF pkt[1] = 0 \/ pkt[1] > PktSize - 2 THEN [s0 EXCEPT !.recv_ret = EINVAL]
        ELSE [anx7688_handle_pd_message(s0, pkt[2], pkt[1] - 1, e, t)
                 EXCEPT !.recv_ret = 0, !.pd_msg = pd_message_args(pkt)]

(* e.rd  result of the block read, e.pkt the 32 bytes read                  *)
anx7688_receive_msg(s, e, t) ==
    LET s0 == Note([s EXCEPT !.recv_ret = 0, !.recv_env = e], "receive_msg")
        pkt == e.pkt
    IN  IF e.rd < 0 THEN [s0 EXCEPT !.recv_ret = e.rd]
        ELSE IF pkt[1] = 0 \/ pkt[1] > PktSize - 2 THEN [s0 EXCEPT !.recv_ret = EINVAL]
        ELSE IF SumBytes(pkt, pkt[1] + 2) # 0 THEN [s0 EXCEPT !.recv_ret = EINVAL]
        ELSE [anx7688_handle_pd_message(s0, pkt[2], pkt[1] - 1, e, t)
                 EXCEPT !.recv_ret = 0, !.pd_msg = pd_message_args(pkt)]

----------------------------------------------------------------------------
(* anx7688_handle_vbus_in_notify, anx7688_handle_current_update            *)

(* e.type_ret, e.usb_type  result and value of the USB_TYPE property read   *)
anx7688_handle_vbus_in_notify(s, e) ==
    LET s0 == Note(s, "vbus_in_notify") IN
    IF e.type_ret # 0 THEN s0
    ELSE IF s0.last_bc_result = e.usb_type THEN s0
    ELSE [s0 EXCEPT !.last_bc_result = e.usb_type]

anx7688_cc_status(v) ==
    IF v = 4 THEN "USB"
    ELSE IF v = 8 THEN "1.5A"
    ELSE IF v = 12 THEN "3.0A"
    ELSE "none"

(* a mode resolution that asks the second pin before the first *)
current_update_mode_second_pin_first(s) ==
    LET m1 == anx7688_cc_status(s.last_cc_status % 16)
        m2 == anx7688_cc_status((s.last_cc_status \div 16) % 16)
    IN  IF s.pd_capable THEN "PD"
        ELSE IF m2 # "none" THEN m2
        ELSE IF m1 # "none" THEN m1
        ELSE "USB"

(* a mode resolution that looks at the first pin only *)
current_update_mode_first_pin(s) ==
    LET m1 == anx7688_cc_status(s.last_cc_status % 16)
    IN  IF s.pd_capable THEN "PD"
        ELSE IF m1 # "none" THEN m1
        ELSE "USB"

(* unsigned cc_status = last_cc_status: "cc_status < 0" is never true, and
   the nibbles of the unsigned value are the remainders of floored division *)
current_update_mode(s) ==
    LET m1 == anx7688_cc_status(s.last_cc_status % 16)
        m2 == anx7688_cc_status((s.last_cc_status \div 16) % 16)
    IN  IF s.pd_capable THEN "PD"
        ELSE IF m1 # "none" THEN m1
        ELSE IF m2 # "none" THEN m2
        ELSE "USB"

(* e.bc_ret      result of the USB_BC_ENABLED property read                 *)
(* e.bc_val      value that read reports (1: detection enabled)             *)
(* e.bc_set_ret  result of the USB_BC_ENABLED property write                *)
(* e.icl_ret     result of the INPUT_CURRENT_LIMIT property write           *)
(* e.online_ret  result of the ONLINE property write                        *)

(* a limit table without the PD entry *)
current_update_limit_no_pd(s, pwr_mode) ==
    IF pwr_mode = "1.5A" THEN 1500
    ELSE IF pwr_mode = "3.0A" THEN 3000
    ELSE 0

current_update_limit(s, pwr_mode) ==
    IF pwr_mode = "1.5A" THEN 1500
    ELSE IF pwr_mode = "3.0A" THEN 3000
    ELSE IF pwr_mode = "PD" THEN s.pd_current_limit
    ELSE 0

(* an engine that writes the 500 mA default whatever BC1.2 detection says *)
current_update_psy_default(s, current_limit, e) ==
    IF current_limit # 0
    THEN psy_set(psy_set(s, "psy_bc_enabled", 0, e.bc_set_ret),
                 "psy_icl", mul_int(current_limit, 1000), e.icl_ret)
    ELSE psy_set(s, "psy_icl", 500 * 1000, e.icl_ret)

current_update_psy(s, current_limit, e) ==
    IF current_limit # 0
    THEN psy_set(psy_set(s, "psy_bc_enabled", 0, e.bc_set_ret),
                 "psy_icl", mul_int(current_limit, 1000), e.icl_ret)
    ELSE IF e.bc_ret # 0 \/ e.bc_val = 0
         THEN psy_set(s, "psy_icl", 500 * 1000, e.icl_ret)
         ELSE s

(* an engine that never brings the input path back online *)
current_update_finish_offline(s, pwr_mode, e) ==
    [s EXCEPT !.port_pwr_opmode = pwr_mode]

current_update_finish(s, pwr_mode, e) ==
    [psy_set(s, "psy_online", 1, e.online_ret) EXCEPT !.port_pwr_opmode = pwr_mode]

anx7688_handle_current_update(s, e) ==
    LET pwr_mode == current_update_mode(s)
        current_limit == current_update_limit(s, pwr_mode)
        s0 == Note([s EXCEPT !.input_current_limit = current_limit,
                             !.upd_env = e],
                   "current_update")
    IN  current_update_finish(current_update_psy(s0, current_limit, e), pwr_mode, e)

----------------------------------------------------------------------------
(* Collaborator results the model draws from                               *)

StatusOk == [status |-> 0, cc_status |-> 4, dp_state |-> 0, dp_substate |-> 0,
             vbus_ret |-> 0, vconn_ret |-> 0, role_ret |-> 0]
StatusSource == [StatusOk EXCEPT !.status = 44, !.cc_status = 1, !.dp_state = 3]
StatusEnvs ==
    { StatusOk,
      [StatusOk EXCEPT !.status = 4, !.cc_status = 128],
      StatusSource,
      [StatusOk EXCEPT !.status = EIO],
      [StatusSource EXCEPT !.vbus_ret = EIO],
      [StatusSource EXCEPT !.role_ret = EIO] }
FewStatusEnvs == {StatusOk, StatusSource}

RecvOk == [rd |-> 0, pkt |-> Block(ocm_frame(MSG_PWR_SRC_CAP, <<44, 145, 1, 10>>)),
           max_v |-> 50, max_p |-> 30, psy_ret |-> 0]
RecvHardRst == [RecvOk EXCEPT !.pkt = Block(ocm_frame(MSG_HARD_RST, << >>))]
RecvObjReq == [RecvOk EXCEPT !.pkt = Block(ocm_frame(MSG_PWR_OBJ_REQ, <<0, 0, 0, 16>>))]
RecvEnvs ==
    { RecvOk,
      RecvHardRst,
      [RecvOk EXCEPT !.max_v = 0],
      [RecvOk EXCEPT !.max_p = EIO],
      [RecvOk EXCEPT !.rd = EIO],
      RecvObjReq,
      [RecvOk EXCEPT !.pkt = Block(ocm_frame(MSG_ACCEPT, << >>))],
      [RecvOk EXCEPT !.pkt = Block(<<1, MSG_HARD_RST, 0>>)],
      [RecvOk EXCEPT !.pkt = Block(<<0>>)] }
FewRecvEnvs == {RecvOk, RecvHardRst}

CurrentOk ==
    [bc_ret |-> 0, bc_val |-> 1, bc_set_ret |-> 0, icl_ret |-> 0, online_ret |-> 0]
CurrentEnvs ==
    [bc_ret : {0, EIO}, bc_val : {0, 1}, bc_set_ret : {0, EIO}, icl_ret : {0, EIO},
     online_ret : {0, EIO}]
FewCurrentEnvs == {CurrentOk, [CurrentOk EXCEPT !.bc_ret = EIO]}

NotifyOk == [type_ret |-> 0, usb_type |-> 1]
NotifyEnvs == {NotifyOk, [type_ret |-> EIO, usb_type |-> 0]}

(* values read from IRQ_EXT_SOURCE2 and STATUS_INT by the status handler *)
Ext2Vals == {4, 0, EIO}
SoftVals == {1, 8, 17, 0, EIO}
FewSoftVals == {1, 8}

(* connects with at most one failing collaborator, and connects where a
   second collaborator fails besides the partner registration *)
ConnectEnvs ==
    {ConnectOk} \cup ConnectVariants(ConnectOk)
    \cup ConnectVariants([ConnectOk EXCEPT !.partner = ENOMEM])
FewConnectEnvs ==
    { ConnectOk,
      [ConnectOk EXCEPT !.fw_late = FwPolls],
      [ConnectOk EXCEPT !.partner = ENOMEM] }

(* numbers of source and sink capabilities configured at probe *)
SrcCapCounts == {1, 8}
SnkCapCounts == {1}

----------------------------------------------------------------------------
(* The kernel's delayed work and mutex                                     *)

(* schedule_delayed_work(&anx7688->work, delay): nothing when already pending *)
schedule_delayed_work(delay) ==
    IF work_pending # "idle"
    THEN UNCHANGED <<work_pending, work_delay>>
    ELSE IF delay = 0
         THEN work_pending' = "queued" /\ work_delay' = 0
         ELSE work_pending' = "timer" /\ work_delay' = delay

(* a lock that is handed out whether or not it is free *)
mutex_lock_unchecked(c) == lock' = c

(* mutex_lock(&anx7688->lock) by context c: returns once the lock is free *)
mutex_lock(c) == lock = "none" /\ lock' = c

mutex_unlock(c) == lock = c /\ lock' = "none"

Step(name) == [NoHist EXCEPT !.act = name]

----------------------------------------------------------------------------
(* Initial state: the device as anx7688_i2c_probe leaves it                *)

Init ==
    /\ \E nsrc \in SrcCapCounts, nsnk \in SnkCapCounts : anx = AnxInit(nsrc, nsnk)
    /\ hist = Step("probe")
    /\ cabledet \in BOOLEAN
    /\ quiet = DebounceMs
    /\ lock = "none"
    /\ work_pc = "idle" /\ irq_pc = "idle" /\ user_pc = "idle" /\ rm_pc = "idle"
    /\ work_pending = "timer" /\ work_delay = ProbeDelayMs
    /\ timer_armed = TRUE /\ nb_registered = TRUE /\ suspended = FALSE

----------------------------------------------------------------------------
(* Interrupt-context steps (no lock)                                       *)

(* the cable-detect line changes and the edge interrupt runs
   anx7688_irq_plug_handler *)
anx7688_irq_plug_handler ==
    /\ rm_pc # "done"
    /\ cabledet' = ~cabledet
    /\ quiet' = 0
    /\ schedule_delayed_work(DebounceMs)
    /\ hist' = Step("plug_irq")
    /\ UNCHANGED <<anx, lock, work_pc, irq_pc, user_pc, rm_pc,
                   timer_armed, nb_registered, suspended>>

(* the cable-detect line changes and the edge interrupt is lost *)
LostEdge ==
    /\ rm_pc # "done"
    /\ cabledet' = ~cabledet
    /\ quiet' = 0
    /\ hist' = Step("lost_edge")
    /\ UNCHANGED <<anx, lock, work_pc, irq_pc, user_pc, rm_pc, work_pending,
                   work_delay, timer_armed, nb_registered, suspended>>

(* a watchdog that only re-arms itself *)
anx7688_cabledet_timer_fn_idle ==
    /\ timer_armed
    /\ timer_armed' = TRUE
    /\ hist' = Step("watchdog")
    /\ UNCHANGED <<anx, cabledet, quiet, lock, work_pc, irq_pc, user_pc, rm_pc,
                   work_pending, work_delay, nb_registered, suspended>>

anx7688_cabledet_timer_fn ==
    /\ timer_armed
    /\ schedule_delayed_work(0)
    /\ timer_armed' = TRUE
    /\ hist' = Step("watchdog")
    /\ UNCHANGED <<anx, cabledet, quiet, lock, work_pc, irq_pc, user_pc, rm_pc,
                   nb_registered, suspended>>

anx7688_vbus_in_notify ==
    /\ nb_registered
    /\ anx' = [anx EXCEPT !.flags = @ \cup {"PWRSUPPLY_CHANGE"}]
    /\ schedule_delayed_work(0)
    /\ hist' = Step("vbus_in_notify")
    /\ UNCHANGED <<cabledet, quiet, lock, work_pc, irq_pc, user_pc, rm_pc,
                   timer_armed, nb_registered, suspended>>

(* the delay of the delayed work has run out: the work is queued *)
DelayExpire ==
    /\ work_pending = "timer"
    /\ work_delay = 0
    /\ work_pending' = "queued"
    /\ hist' = Step("delay_expire")
    /\ UNCHANGED <<anx, cabledet, quiet, lock, work_pc, irq_pc, user_pc, rm_pc,
                   work_delay, timer_armed, nb_registered, suspended>>

(* a timestamp d ms later, as seen from the new present; 0 is "unset" and
   every timestamp in the past is kept as Now - 1 *)
Age(ts, d) ==
    IF ts = 0 THEN 0
    ELSE IF ts - d < Now THEN Now - 1
    ELSE ts - d

(* d ms pass *)
Tick(d) ==
    /\ anx' = [anx EXCEPT !.current_update_deadline = Age(@, d)]
    /\ work_delay' = IF work_delay > d THEN work_delay - d ELSE 0
    /\ quiet' = IF quiet + d < DebounceMs THEN quiet + d ELSE DebounceMs
    /\ hist' = Step("tick")
    /\ UNCHANGED <<cabledet, lock, work_pc, irq_pc, user_pc, rm_pc, work_pending,
                   timer_armed, nb_registered, suspended>>

----------------------------------------------------------------------------
(* anx7688_work                                                            *)

(* the start of a worker that does not test FW_FAILED *)
WorkRun_untested ==
    /\ work_pending = "queued"
    /\ work_pc = "idle"
    /\ work_pending' = "idle"
    /\ work_pc' = "lock"
    /\ hist' = Step("work_start")
    /\ UNCHANGED <<anx, cabledet, quiet, lock, irq_pc, user_pc, rm_pc, work_delay,
                   timer_armed, nb_registered, suspended>>

(* the workqueue starts the work; the function tests FW_FAILED before it
   takes the lock *)
WorkRun ==
    /\ work_pending = "queued"
    /\ work_pc = "idle"
    /\ work_pending' = "idle"
    /\ IF "FW_FAILED" \in anx.flags
       THEN work_pc' = "idle" /\ hist' = Step("work_skip")
       ELSE work_pc' = "lock" /\ hist' = Step("work_start")
    /\ UNCHANGED <<anx, cabledet, quiet, lock, irq_pc, user_pc, rm_pc, work_delay,
                   timer_armed, nb_registered, suspended>>

WorkLock ==
    /\ work_pc = "lock"
    /\ mutex_lock("work")
    /\ work_pc' = "locked"
    /\ hist' = Step("work_lock")
    /\ UNCHANGED <<anx, cabledet, quiet, irq_pc, user_pc, rm_pc, work_pending,
                   work_delay, timer_armed, nb_registered, suspended>>

work_notify(s, e) ==
    IF "PWRSUPPLY_CHANGE" \in s.flags
    THEN anx7688_handle_vbus_in_notify([s EXCEPT !.flags = @ \ {"PWRSUPPLY_CHANGE"}], e)
    ELSE s

(* a worker that runs the engine as soon as a deadline is armed *)
work_current_update_eager(s, e, t) ==
    IF s.current_update_deadline # 0
    THEN anx7688_handle_current_update([s EXCEPT !.current_update_deadline = 0], e)
    ELSE s

work_current_update(s, e, t) ==
    IF s.current_update_deadline # 0 /\ t > s.current_update_deadline
    THEN anx7688_handle_current_update([s EXCEPT !.current_update_deadline = 0], e)
    ELSE s

(* a worker that ends the session when the status update fails *)
anx7688_work_failsafe(s, cd, en, ec, es, eb, t) ==
    LET s1 == work_notify(s, en)
        s2 == anx7688_handle_cable_change(s1, cd, ec, t)
    IN  IF "CONNECTED" \in s2.flags
        THEN LET s3 == anx7688_update_status(s2, es)
             IN  IF s3.status_ret # 0 THEN anx7688_disconnect(s3)
                 ELSE work_current_update(s3, eb, t)
        ELSE s2

(* the body of anx7688_work between mutex_lock and mutex_unlock *)
anx7688_work(s, cd, en, ec, es, eb, t) ==
    LET s1 == work_notify(s, en)
        s2 == anx7688_handle_cable_change(s1, cd, ec, t)
    IN  IF "CONNECTED" \in s2.flags
        THEN work_current_update(anx7688_update_status(s2, es), eb, t)
        ELSE s2

(* CE, SE, BE: the collaborator results a connect, a status update and a
   current update may get *)
WorkBody(CE, SE, BE) ==
    /\ work_pc = "locked"
    /\ \E en \in (IF "PWRSUPPLY_CHANGE" \in anx.flags THEN NotifyEnvs ELSE {NotifyOk}),
          ec \in (IF cabledet /\ "CONNECTED" \notin anx.flags THEN CE ELSE {ConnectOk}) :
          LET s0 == Join(anx, NoHist)
              s2 == anx7688_handle_cable_change(work_notify(s0, en), cabledet, ec, Now)
          IN  \E es \in (IF "CONNECTED" \in s2.flags THEN SE ELSE {StatusOk}),
                 eb \in (IF "CONNECTED" \in s2.flags THEN BE ELSE {CurrentOk}) :
                 LET r == anx7688_work(s0, cabledet, en, ec, es, eb, Now)
                 IN  anx' = Drv(r) /\ hist' = Hist(r, "work")
    /\ mutex_unlock("work")
    /\ work_pc' = "idle"
    /\ UNCHANGED <<cabledet, quiet, irq_pc, user_pc, rm_pc, work_pending,
                   work_delay, timer_armed, nb_registered, suspended>>

----------------------------------------------------------------------------
(* anx7688_irq_status_handler (threaded interrupt)                         *)

(* e.ext2, e.soft  reads of IRQ_EXT_SOURCE2 and STATUS_INT                  *)
(* e.rx, e.us      collaborator results for receive_msg and update_status   *)
anx7688_irq_status_handler(s, e, t) ==
    IF "CONNECTED" \notin s.flags THEN Note(s, "spurious")
    ELSE IF Bit(e.ext2, 2) = 1 /\ e.soft > 0
    THEN LET soft == e.soft % 128
             s1 == IF Bit(soft, 0) = 1
                   THEN anx7688_receive_msg(s, e.rx, t) ELSE s
         IN  IF Bit(soft, 4) = 1 \/ Bit(soft, 3) = 1 \/ Bit(soft, 2) = 1
                \/ Bit(soft, 5) = 1
             THEN anx7688_update_status(s1, e.us)
             ELSE s1
    ELSE Note(s, "irq")

IrqLock ==
    /\ irq_pc = "idle"
    /\ rm_pc # "done"
    /\ mutex_lock("irq")
    /\ irq_pc' = "locked"
    /\ hist' = Step("irq_lock")
    /\ UNCHANGED <<anx, cabledet, quiet, work_pc, user_pc, rm_pc, work_pending,
                   work_delay, timer_armed, nb_registered, suspended>>

(* SV, XE, SE: the values of STATUS_INT, and the collaborator results a
   message receive and a status update may get *)
IrqBody(SV, XE, SE) ==
    /\ irq_pc = "locked"
    /\ \E ext2 \in (IF "CONNECTED" \in anx.flags THEN Ext2Vals ELSE {0}),
          soft \in (IF "CONNECTED" \in anx.flags THEN SV ELSE {0}) :
          \E rx \in (IF Bit(ext2, 2) = 1 /\ soft > 0 /\ Bit(soft, 0) = 1
                     THEN XE ELSE {RecvOk}),
             us \in (IF Bit(ext2, 2) = 1 /\ soft > 0 /\ soft \div 4 # 0
                     THEN SE ELSE {StatusOk}) :
             LET r == anx7688_irq_status_handler(Join(anx, NoHist),
                          [ext2 |-> ext2, soft |-> soft, rx |-> rx, us |-> us], Now)
             IN  anx' = Drv(r) /\ hist' = Hist(r, "irq")
    /\ mutex_unlock("irq")
    /\ irq_pc' = "idle"
    /\ UNCHANGED <<cabledet, quiet, work_pc, user_pc, rm_pc, work_pending,
                   work_delay, timer_armed, nb_registered, suspended>>

----------------------------------------------------------------------------
(* sysfs, debugfs and typec-ops callers                                    *)

UserOps == {"hwreset", "flash", "firmware_show", "regs_show", "dr_set"}

(* the caller enters its operation and takes the lock; anx7688_dr_set does
   so only for a role other than the current one *)
UserLock(ops) ==
    /\ user_pc = "idle"
    /\ rm_pc = "idle"
    /\ ~suspended
    /\ \E op \in ops :
          /\ op = "dr_set" => \E role \in {"HOST", "DEVICE"} : anx.data_role # role
          /\ user_pc' = op
    /\ mutex_lock("user")
    /\ hist' = Step("user_lock")
    /\ UNCHANGED <<anx, cabledet, quiet, work_pc, irq_pc, rm_pc, work_pending,
                   work_delay, timer_armed, nb_registered, suspended>>

(* a caller that skips the disconnect *)
disconnect_if_connected_never(s) == s

disconnect_if_connected(s) ==
    IF "CONNECTED" \in s.flags THEN anx7688_disconnect(s) ELSE s

hwreset_store(s) == Note(disconnect_if_connected(s), "hwreset")

(* ok: every step of the EEPROM programming succeeded *)
anx7688_flash_firmware(s, ok) ==
    LET a == anx7688_power_enable(disconnect_if_connected(s))
        b == IF ok THEN Note([a EXCEPT !.flags = @ \ {"FW_FAILED"}], "flashed")
             ELSE Note(a, "flash_failed")
    IN  anx7688_power_disable(b)

anx7688_firmware_show(s) ==
    anx7688_power_disable(
        Note(anx7688_power_enable(disconnect_if_connected(s)), "eeprom_read"))

anx7688_regs_show(s) ==
    IF "POWERED" \in s.flags THEN Note(s, "regs_read") ELSE Note(s, "regs_nodev")

anx7688_dr_set(s, e) ==
    IF anx7688_send_ocm_message(0, e) = 0
    THEN Note(s, "dswap_sent") ELSE Note(s, "dswap_failed")

HwresetBody ==
    /\ user_pc = "hwreset"
    /\ LET r == hwreset_store(Join(anx, NoHist))
       IN  anx' = Drv(r) /\ hist' = Hist(r, "hwreset")
    /\ schedule_delayed_work(HwresetDelayMs)
    /\ mutex_unlock("user")
    /\ user_pc' = "idle"
    /\ UNCHANGED <<cabledet, quiet, work_pc, irq_pc, rm_pc,
                   timer_armed, nb_registered, suspended>>

FlashBody ==
    /\ user_pc = "flash"
    /\ \E ok \in BOOLEAN :
          LET r == anx7688_flash_firmware(Join(anx, NoHist), ok)
          IN  anx' = Drv(r) /\ hist' = Hist(r, "flash")
    /\ schedule_delayed_work(FlashDelayMs)
    /\ mutex_unlock("user")
    /\ user_pc' = "idle"
    /\ UNCHANGED <<cabledet, quiet, work_pc, irq_pc, rm_pc,
                   timer_armed, nb_registered, suspended>>

FirmwareShowBody ==
    /\ user_pc = "firmware_show"
    /\ LET r == anx7688_firmware_show(Join(anx, NoHist))
       IN  anx' = Drv(r) /\ hist' = Hist(r, "firmware_show")
    /\ schedule_delayed_work(0)
    /\ mutex_unlock("user")
    /\ user_pc' = "idle"
    /\ UNCHANGED <<cabledet, quiet, work_pc, irq_pc, rm_pc,
                   timer_armed, nb_registered, suspended>>

RegsShowBody ==
    /\ user_pc = "regs_show"
    /\ LET r == anx7688_regs_show(Join(anx, NoHist))
       IN  anx' = Drv(r) /\ hist' = Hist(r, "regs_show")
    /\ mutex_unlock("user")
    /\ user_pc' = "idle"
    /\ UNCHANGED <<cabledet, quiet, work_pc, irq_pc, rm_pc, work_pending, work_delay,
                   timer_armed, nb_registered, suspended>>

DrSetBody ==
    /\ user_pc = "dr_set"
    /\ \E e \in SendEnvs :
          LET r == anx7688_dr_set(Join(anx, NoHist), e)
          IN  anx' = Drv(r) /\ hist' = Hist(r, "dr_set")
    /\ mutex_unlock("user")
    /\ user_pc' = "idle"
    /\ UNCHANGED <<cabledet, quiet, work_pc, irq_pc, rm_pc, work_pending, work_delay,
                   timer_armed, nb_registered, suspended>>

----------------------------------------------------------------------------
(* anx7688_i2c_remove, anx7688_suspend, anx7688_resume                     *)

(* mutex_lock, power_supply_unreg_notifier, del_timer_sync; the function
   then waits in cancel_delayed_work_sync with the lock held *)
RemoveLock ==
    /\ rm_pc = "idle"
    /\ ~suspended
    /\ mutex_lock("remove")
    /\ nb_registered' = FALSE
    /\ timer_armed' = FALSE
    /\ rm_pc' = "cancel"
    /\ hist' = Step("remove_lock")
    /\ UNCHANGED <<anx, cabledet, quiet, work_pc, irq_pc, user_pc, work_pending,
                   work_delay, suspended>>

(* the rest of remove after cancel_delayed_work_sync, to mutex_unlock *)
anx7688_i2c_remove(s) ==
    Note(typec_unregister_partner(disconnect_if_connected(s)), "removed")

(* cancel_delayed_work_sync returns once the work is neither pending nor
   running; remove from there to mutex_unlock with no interrupt in between *)
RemoveFinish ==
    /\ rm_pc = "cancel"
    /\ work_pc = "idle"
    /\ work_pending' = "idle"
    /\ work_delay' = 0
    /\ LET r == anx7688_i2c_remove(Join(anx, NoHist))
       IN  anx' = Drv(r) /\ hist' = Hist(r, "remove")
    /\ mutex_unlock("remove")
    /\ rm_pc' = "done"
    /\ UNCHANGED <<cabledet, quiet, work_pc, irq_pc, user_pc,
                   timer_armed, nb_registered, suspended>>

(* del_timer_sync and cancel_delayed_work_sync, then the i2c supply is
   switched off if the chip is powered; no lock is taken *)
anx7688_suspend ==
    /\ ~suspended
    /\ rm_pc = "idle"
    /\ user_pc = "idle"
    /\ work_pc = "idle"
    /\ timer_armed' = FALSE
    /\ work_pending' = "idle"
    /\ work_delay' = 0
    /\ anx' = IF "POWERED" \in anx.flags THEN [anx EXCEPT !.i2c_on = FALSE] ELSE anx
    /\ suspended' = TRUE
    /\ hist' = Step("suspend")
    /\ UNCHANGED <<cabledet, quiet, lock, work_pc, irq_pc, user_pc, rm_pc,
                   nb_registered>>

(* the i2c supply is switched on if the chip is powered; the worker is
   scheduled and the watchdog re-armed; no lock is taken *)
anx7688_resume ==
    /\ suspended
    /\ anx' = IF "POWERED" \in anx.flags THEN [anx EXCEPT !.i2c_on = TRUE] ELSE anx
    /\ schedule_delayed_work(ResumeDelayMs)
    /\ timer_armed' = TRUE
    /\ suspended' = FALSE
    /\ hist' = Step("resume")
    /\ UNCHANGED <<cabledet, quiet, lock, work_pc, irq_pc, user_pc, rm_pc,
                   nb_registered>>

----------------------------------------------------------------------------
(* Spec: every context of the driver, with few collaborator results        *)

Next ==
    \/ anx7688_irq_plug_handler
    \/ LostEdge
    \/ anx7688_cabledet_timer_fn
    \/ anx7688_vbus_in_notify
    \/ DelayExpire
    \/ Tick(TickMs)
    \/ WorkRun
    \/ WorkLock
    \/ WorkBody(FewConnectEnvs, {StatusOk}, FewCurrentEnvs)
    \/ IrqLock
    \/ IrqBody({8}, {RecvOk}, {StatusSource})
    \/ UserLock(UserOps)
    \/ HwresetBody
    \/ FlashBody
    \/ FirmwareShowBody
    \/ RegsShowBody
    \/ DrSetBody
    \/ RemoveLock
    \/ RemoveFinish
    \/ anx7688_suspend
    \/ anx7688_resume

Spec == Init /\ [][Next]_vars

(* SpecSession: the contexts that end a session, with a source and a sink  *)
(* partner and PD messages                                                 *)

NextSession ==
    \/ anx7688_irq_plug_handler
    \/ DelayExpire
    \/ Tick(TickMs)
    \/ WorkRun
    \/ WorkLock
    \/ WorkBody(FewConnectEnvs, FewStatusEnvs, FewCurrentEnvs)
    \/ IrqLock
    \/ IrqBody(FewSoftVals, FewRecvEnvs, FewStatusEnvs)
    \/ UserLock({"hwreset", "flash", "firmware_show"})
    \/ HwresetBody
    \/ FlashBody
    \/ FirmwareShowBody
    \/ RemoveLock
    \/ RemoveFinish

SpecSession == Init /\ [][NextSession]_vars

(* SpecConnect: the worker alone, with every collaborator result a connect *)
(* may get                                                                 *)

NextConnect ==
    \/ anx7688_irq_plug_handler
    \/ DelayExpire
    \/ Tick(TickMs)
    \/ WorkRun
    \/ WorkLock
    \/ WorkBody(ConnectEnvs, FewStatusEnvs, FewCurrentEnvs)

SpecConnect == Init /\ [][NextConnect]_vars

(* SpecDebounce: the plug interrupt and the worker on a 5 ms clock, from   *)
(* the state the first re-evaluation after probe leaves without a cable    *)

InitIdle ==
    /\ \E nsrc \in SrcCapCounts, nsnk \in SnkCapCounts : anx = AnxInit(nsrc, nsnk)
    /\ hist = Step("work")
    /\ cabledet = FALSE
    /\ quiet = DebounceMs
    /\ lock = "none"
    /\ work_pc = "idle" /\ irq_pc = "idle" /\ user_pc = "idle" /\ rm_pc = "idle"
    /\ work_pending = "idle" /\ work_delay = 0
    /\ timer_armed = TRUE /\ nb_registered = TRUE /\ suspended = FALSE

NextDebounce ==
    \/ anx7688_irq_plug_handler
    \/ DelayExpire
    \/ Tick(FineTickMs)
    \/ WorkRun
    \/ WorkLock
    \/ WorkBody(FewConnectEnvs, {StatusOk}, FewCurrentEnvs)

SpecDebounce == InitIdle /\ [][NextDebounce]_vars

(* SpecWatchdog: no edge interrupt is ever delivered.  The timer fires,    *)
(* time passes, queued work runs, a thread that holds the lock finishes,   *)
(* and a thread that waits for the lock gets it if it is free again and    *)
(* again.                                                                  *)

NextWatchdog ==
    \/ LostEdge
    \/ anx7688_cabledet_timer_fn
    \/ DelayExpire
    \/ Tick(TickMs)
    \/ WorkRun
    \/ WorkLock
    \/ WorkBody(FewConnectEnvs, {StatusOk}, FewCurrentEnvs)
    \/ IrqLock
    \/ IrqBody({8}, {RecvOk}, {StatusSource})
    \/ RemoveLock
    \/ RemoveFinish
    \/ anx7688_suspend
    \/ anx7688_resume

(* A locked section is enabled for as long as its thread is inside it, so
   weak fairness of the section is that the thread is not inside forever *)
WorkReturns == []<>(work_pc # "locked")
IrqReturns == []<>(irq_pc # "locked")

SpecWatchdog ==
    /\ Init
    /\ [][NextWatchdog]_vars
    /\ WF_vars(anx7688_cabledet_timer_fn)
    /\ WF_vars(Tick(TickMs))
    /\ WF_vars(DelayExpire)
    /\ WF_vars(WorkRun)
    /\ SF_vars(WorkLock)
    /\ WorkReturns
    /\ IrqReturns

(* SpecEngine: the worker runs with the current-limit deadline past, on a  *)
(* session with or without a PD partner, for every value of the CC status  *)
(* register and every result of the power-supply property accesses         *)

(* sessions after a connect: no PD message yet, one PD message, or a
   source-capability report followed by a hard reset *)
EngineSessions ==
    LET c0 == anx7688_connect(Join(AnxInit(1, 1), NoHist), ConnectOk, Now)
    IN  {Drv(c0)} \cup
        {Drv(anx7688_receive_msg(c0, e, Now)) :
            e \in {RecvOk, [RecvOk EXCEPT !.max_p = 0], RecvObjReq}} \cup
        {Drv(anx7688_receive_msg(anx7688_receive_msg(c0, RecvOk, Now),
                                 RecvHardRst, Now))}

(* the status reads of a worker: every CC status, or a failed read *)
CcStatusEnvs ==
    {[StatusOk EXCEPT !.cc_status = v] : v \in 0..255}
    \cup {[StatusOk EXCEPT !.status = EIO]}

InitEngine ==
    /\ anx \in {[a EXCEPT !.current_update_deadline = Age(@, TickMs)] :
                   a \in EngineSessions}
    /\ hist = Step("tick")
    /\ cabledet = TRUE
    /\ quiet = DebounceMs
    /\ lock = "none"
    /\ work_pc = "idle" /\ irq_pc = "idle" /\ user_pc = "idle" /\ rm_pc = "idle"
    /\ work_pending = "queued" /\ work_delay = 0
    /\ timer_armed = TRUE /\ nb_registered = TRUE /\ suspended = FALSE

NextEngine ==
    \/ WorkRun
    \/ WorkLock
    \/ WorkBody({ConnectOk}, CcStatusEnvs, CurrentEnvs)

SpecEngine == InitEngine /\ [][NextEngine]_vars

(* SpecMessages: the status interrupt delivers one message after another   *)
(* to a connected session: source-capability reports of several lengths   *)
(* with every kind of register reading, hard resets, other commands and    *)
(* malformed blocks                                                        *)

(* a payload of n bytes *)
Payload(n) == [i \in 1..n |-> (37 * i) % 256]

SrcCapEnvs ==
    {[RecvOk EXCEPT !.pkt = Block(ocm_frame(MSG_PWR_SRC_CAP, Payload(n))),
                    !.max_v = v, !.max_p = p] :
        n \in {0, 4, 6, 28, 29}, v \in {EIO, 0, 1, 50, 255}, p \in {EIO, 0, 30, 255}}

(* blocks that are no frame: a length byte of 0 or above 30, or a checksum
   that is off *)
MalformedBlocks ==
    LET src == Block(ocm_frame(MSG_PWR_SRC_CAP, Payload(4)))
        rst == Block(ocm_frame(MSG_HARD_RST, << >>))
        req == Block(ocm_frame(MSG_PWR_OBJ_REQ, Payload(4)))
    IN  { Block(<<0>>),
          [src EXCEPT ![1] = 0], [src EXCEPT ![1] = 31], [src EXCEPT ![1] = 255],
          [rst EXCEPT ![1] = 31],
          [src EXCEPT ![7] = (@ + 1) % 256], [src EXCEPT ![3] = (@ + 255) % 256],
          [rst EXCEPT ![3] = (@ + 1) % 256], [rst EXCEPT ![2] = MSG_PWR_SRC_CAP],
          [req EXCEPT ![7] = (@ + 128) % 256] }

MessageEnvs ==
    SrcCapEnvs
    \cup {[RecvHardRst EXCEPT !.psy_ret = r] : r \in {0, EIO}}
    \cup {RecvObjReq, [RecvOk EXCEPT !.pkt = Block(ocm_frame(MSG_ACCEPT, << >>))],
          [RecvOk EXCEPT !.rd = EIO]}
    \cup {[RecvOk EXCEPT !.pkt = b] : b \in MalformedBlocks}

InitMessages ==
    /\ anx \in EngineSessions
    /\ hist = Step("work")
    /\ cabledet = TRUE
    /\ quiet = DebounceMs
    /\ lock = "none"
    /\ work_pc = "idle" /\ irq_pc = "idle" /\ user_pc = "idle" /\ rm_pc = "idle"
    /\ work_pending = "idle" /\ work_delay = 0
    /\ timer_armed = TRUE /\ nb_registered = TRUE /\ suspended = FALSE

NextMessages ==
    \/ IrqLock
    \/ IrqBody({1}, MessageEnvs, {StatusOk})
    \/ Tick(TickMs)

SpecMessages == InitMessages /\ [][NextMessages]_vars

(* SpecTransport: anx7688_send_ocm_message applied to commands and to      *)
(* payloads of every length up to the packet buffer                        *)

SendCmds == {0, 22, 242, 255}

SendPayloads ==
    {[i \in 1..n |-> (ab[1] * i + ab[2]) % 256] :
        n \in 0..(PktSize - 2),
        ab \in {<<0, 0>>, <<0, 255>>, <<37, 0>>, <<101, 7>>}}

(* one call of anx7688_send_ocm_message(cmd, data, Len(data)): the packet it
   builds once the length is accepted, and the value it returns *)
SendOcmMessage(CMDS, DATA, ENVS) ==
    /\ \E cmd \in CMDS, data \in DATA, e \in ENVS :
          hist' = [Step("send") EXCEPT !.sent =
                      [ cmd |-> cmd, data |-> data, env |-> e,
                        frame |-> IF Len(data) > PktSize - 3 THEN << >>
                                  ELSE ocm_frame(cmd, data),
                        writes |-> send_writes(Len(data), e),
                        polls |-> send_polls(Len(data), e),
                        ret |-> anx7688_send_ocm_message(Len(data), e) ]]
    /\ UNCHANGED <<anx, cabledet, quiet, lock, work_pc, irq_pc, user_pc, rm_pc,
                   work_pending, work_delay, timer_armed, nb_registered, suspended>>

NextTransport ==
    SendOcmMessage(SendCmds, SendPayloads, {SendOk, [SendOk EXCEPT !.pre = 1]})

InitTransport == InitIdle /\ anx.n_src_caps = 1

SpecTransport == InitTransport /\ [][NextTransport]_vars

(* SpecReconcile: the worker run by the watchdog and the status interrupt, *)
(* from the expiry of the probe's delay, with the cable plugged and        *)
(* unplugged, with combinations of the VBUS, VCONN and data role bits of   *)
(* the status register, DP states on both sides of the hot-plug threshold, *)
(* and a failure of each register read and of each switch                  *)

StatusBits == {0, 4, 8, 32, 44}

ReconcileEnvs ==
    {[StatusOk EXCEPT !.status = b, !.dp_state = d] :
        b \in StatusBits, d \in {2, 3}}
    \cup {[StatusOk EXCEPT !.status = b, !.vbus_ret = EIO] : b \in {0, 44}}
    \cup {[StatusOk EXCEPT !.status = b, !.vconn_ret = EIO] : b \in {0, 44}}
    \cup {[StatusOk EXCEPT !.status = b, !.role_ret = EIO] : b \in {0, 44}}
    \cup {[StatusSource EXCEPT !.status = EIO],
          [StatusSource EXCEPT !.cc_status = EIO],
          [StatusSource EXCEPT !.dp_state = EIO],
          [StatusSource EXCEPT !.dp_substate = EIO]}

NextReconcile ==
    \/ LostEdge
    \/ anx7688_cabledet_timer_fn
    \/ WorkRun
    \/ WorkLock
    \/ WorkBody(FewConnectEnvs, ReconcileEnvs, {CurrentOk})
    \/ IrqLock
    \/ IrqBody({8, 9}, {RecvOk, [RecvOk EXCEPT !.rd = EIO]}, ReconcileEnvs)

InitReconcile ==
    /\ anx = AnxInit(1, 1)
    /\ hist = Step("probe")
    /\ cabledet = TRUE
    /\ quiet = DebounceMs
    /\ lock = "none"
    /\ work_pc = "idle" /\ irq_pc = "idle" /\ user_pc = "idle" /\ rm_pc = "idle"
    /\ work_pending = "queued" /\ work_delay = 0
    /\ timer_armed = TRUE /\ nb_registered = TRUE /\ suspended = FALSE

SpecReconcile == InitReconcile /\ [][NextReconcile]_vars

(* SpecLogOnly: the status interrupt receives a message of every command   *)
(* byte the interpreter only logs, with payloads of several lengths        *)

LogOnlyCmds == (0..255) \ {MSG_PWR_SRC_CAP, MSG_PWR_OBJ_REQ, MSG_HARD_RST}

LogOnlyEnvs ==
    {[RecvOk EXCEPT !.pkt = Block(ocm_frame(c, Payload(n)))] :
        c \in LogOnlyCmds, n \in {0, 1, 2, 4}}

NextLogOnly ==
    \/ IrqLock
    \/ IrqBody({1}, LogOnlyEnvs \cup {RecvOk}, {StatusOk})

SpecLogOnly == InitMessages /\ [][NextLogOnly]_vars

(* SpecReconnect: sessions that follow one another on one device: the      *)
(* cable is plugged and unplugged, every connect succeeds, and the partner *)
(* of a session sends a source-capability report (whose register reads     *)
(* succeed or fail), a power-object request, or a Hard-Reset               *)

ReconnectRecvEnvs ==
    {RecvOk, RecvObjReq, RecvHardRst, [RecvOk EXCEPT !.max_p = EIO]}

InitReconnect ==
    /\ anx = AnxInit(1, 1)
    /\ hist = Step("probe")
    /\ cabledet = TRUE
    /\ quiet = DebounceMs
    /\ lock = "none"
    /\ work_pc = "idle" /\ irq_pc = "idle" /\ user_pc = "idle" /\ rm_pc = "idle"
    /\ work_pending = "timer" /\ work_delay = ProbeDelayMs
    /\ timer_armed = TRUE /\ nb_registered = TRUE /\ suspended = FALSE

NextReconnect ==
    \/ anx7688_irq_plug_handler
    \/ anx7688_cabledet_timer_fn
    \/ DelayExpire
    \/ Tick(TickMs)
    \/ WorkRun
    \/ WorkLock
    \/ WorkBody({ConnectOk}, {StatusOk}, {CurrentOk})
    \/ IrqLock
    \/ IrqBody({1}, ReconnectRecvEnvs, {StatusOk})

SpecReconnect == InitReconnect /\ [][NextReconnect]_vars

(* SpecDeadline: a session in which the partner sends source capabilities  *)
(* and Hard-Resets, under the scheduling the kernel gives: the watchdog    *)
(* timer fires, time passes, an expired delay queues the work, queued work *)
(* is started, locked sections end, and the worker gets the lock when it   *)
(* is free again and again.  Nothing is assumed about the interrupts.      *)

DeadlineRecvEnvs == {RecvOk, RecvHardRst}
DeadlineCurrentEnvs == {CurrentOk, [CurrentOk EXCEPT !.online_ret = EIO]}

NextDeadline ==
    \/ anx7688_irq_plug_handler
    \/ anx7688_cabledet_timer_fn
    \/ DelayExpire
    \/ Tick(TickMs)
    \/ WorkRun
    \/ WorkLock
    \/ WorkBody({ConnectOk}, {StatusOk}, DeadlineCurrentEnvs)
    \/ IrqLock
    \/ IrqBody({1}, DeadlineRecvEnvs, {StatusOk})

SpecDeadline ==
    /\ InitReconnect
    /\ [][NextDeadline]_vars
    /\ WF_vars(anx7688_cabledet_timer_fn)
    /\ WF_vars(Tick(TickMs))
    /\ WF_vars(DelayExpire)
    /\ WF_vars(WorkRun)
    /\ SF_vars(WorkLock)
    /\ WorkReturns
    /\ IrqReturns

(* SpecTeardown: anx7688_i2c_remove step by step.  The interrupts were     *)
(* requested with devm_request_irq and devm_request_threaded_irq, so they  *)
(* are released only after remove has returned: while remove runs, the     *)
(* cable-detect handler can still be called.                               *)

(* cancel_delayed_work_sync returns once the work is neither pending nor
   running; remove still holds the lock *)
RemoveCancel ==
    /\ rm_pc = "cancel"
    /\ work_pc = "idle"
    /\ work_pending' = "idle"
    /\ work_delay' = 0
    /\ rm_pc' = "cancelled"
    /\ hist' = Step("remove_cancel")
    /\ UNCHANGED <<anx, cabledet, quiet, lock, work_pc, irq_pc, user_pc,
                   timer_armed, nb_registered, suspended>>

(* the rest of remove: disconnect if connected, unregister, mutex_unlock *)
RemoveTeardown ==
    /\ rm_pc = "cancelled"
    /\ LET r == anx7688_i2c_remove(Join(anx, NoHist))
       IN  anx' = Drv(r) /\ hist' = Hist(r, "remove")
    /\ mutex_unlock("remove")
    /\ rm_pc' = "done"
    /\ UNCHANGED <<cabledet, quiet, work_pc, irq_pc, user_pc, work_pending,
                   work_delay, timer_armed, nb_registered, suspended>>

NextTeardown ==
    \/ anx7688_irq_plug_handler
    \/ anx7688_cabledet_timer_fn
    \/ anx7688_vbus_in_notify
    \/ DelayExpire
    \/ Tick(TickMs)
    \/ WorkRun
    \/ WorkLock
    \/ WorkBody({ConnectOk}, {StatusOk}, {CurrentOk})
    \/ IrqLock
    \/ IrqBody({8}, {RecvOk}, {StatusSource})
    \/ RemoveLock
    \/ RemoveCancel
    \/ RemoveTeardown

SpecTeardown == InitReconnect /\ [][NextTeardown]_vars

(* SpecLimits: the status interrupt of a fresh session has taken the lock  *)
(* and receives one source-capability report, whose max-power register     *)
(* value is any byte and whose max-voltage register value is taken from    *)
(* the range of a byte, both ends included; the worker runs that follow    *)
(* program the limit                                                       *)

MaxPowerVals == 0..255
MaxVoltageVals == {0, 1, 2, 3, 5, 50, 100, 127, 128, 200, 255}

LimitEnvs ==
    {[RecvOk EXCEPT !.max_p = p, !.max_v = v] :
        p \in MaxPowerVals, v \in MaxVoltageVals}

InitLimits ==
    /\ anx = Drv(anx7688_connect(Join(AnxInit(1, 1), NoHist), ConnectOk, Now))
    /\ hist = Step("irq_lock")
    /\ cabledet = TRUE
    /\ quiet = DebounceMs
    /\ lock = "irq"
    /\ work_pc = "idle" /\ irq_pc = "locked" /\ user_pc = "idle" /\ rm_pc = "idle"
    /\ work_pending = "idle" /\ work_delay = 0
    /\ timer_armed = TRUE /\ nb_registered = TRUE /\ suspended = FALSE

NextLimits ==
    \/ IrqBody({1}, LimitEnvs, {StatusOk})
    \/ Tick(TickMs)
    \/ anx7688_cabledet_timer_fn
    \/ WorkRun
    \/ WorkLock
    \/ WorkBody({ConnectOk}, {StatusOk}, {CurrentOk})

SpecLimits == InitLimits /\ [][NextLimits]_vars

(* SpecRequests: the status interrupt receives power-object requests of    *)
(* every object index and of right and wrong lengths, in sessions with one *)
(* and with seven source capabilities                                      *)

ObjReqEnvs ==
    {[RecvOk EXCEPT !.pkt = Block(ocm_frame(MSG_PWR_OBJ_REQ,
                                   [i \in 1..n |-> IF i = 4 THEN top ELSE Payload(n)[i]]))] :
        n \in {0, 3, 4, 5, 8}, top \in {16 * k + 3 : k \in 0..15}}

RequestSessions ==
    EngineSessions \cup
    {Drv(anx7688_receive_msg(
             anx7688_connect(Join(AnxInit(7, 1), NoHist), ConnectOk, Now), e, Now)) :
        e \in {RecvOk, RecvHardRst}}

InitRequests ==
    /\ anx \in RequestSessions
    /\ hist = Step("work")
    /\ cabledet = TRUE
    /\ quiet = DebounceMs
    /\ lock = "none"
    /\ work_pc = "idle" /\ irq_pc = "idle" /\ user_pc = "idle" /\ rm_pc = "idle"
    /\ work_pending = "idle" /\ work_delay = 0
    /\ timer_armed = TRUE /\ nb_registered = TRUE /\ suspended = FALSE

NextRequests ==
    \/ IrqLock
    \/ IrqBody({1}, ObjReqEnvs \cup {RecvOk, RecvHardRst}, {StatusOk})
    \/ Tick(TickMs)

SpecRequests == InitRequests /\ [][NextRequests]_vars

(* SpecCaps: the worker alone, for every number of source and sink         *)
(* capabilities the probe accepts                                          *)

CapCounts == 1..8

InitCaps ==
    /\ \E nsrc \in CapCounts, nsnk \in CapCounts : anx = AnxInit(nsrc, nsnk)
    /\ hist = Step("probe")
    /\ cabledet \in BOOLEAN
    /\ quiet = DebounceMs
    /\ lock = "none"
    /\ work_pc = "idle" /\ irq_pc = "idle" /\ user_pc = "idle" /\ rm_pc = "idle"
    /\ work_pending = "timer" /\ work_delay = ProbeDelayMs
    /\ timer_armed = TRUE /\ nb_registered = TRUE /\ suspended = FALSE

NextCaps ==
    \/ anx7688_irq_plug_handler
    \/ DelayExpire
    \/ Tick(TickMs)
    \/ WorkRun
    \/ WorkLock
    \/ WorkBody(FewConnectEnvs, {StatusOk}, FewCurrentEnvs)

SpecCaps == InitCaps /\ [][NextCaps]_vars

(* SpecSendQueue: anx7688_send_ocm_message applied to a few payloads, for  *)
(* every reading of the queue indicator before the write, every result of  *)
(* the block write and every course of the polls after it                  *)

QueueEnvs ==
    [pre : {0, 1, 255, EIO}, wr : {0, EIO},
     busy : {0, 2, SendPolls - 1, SendPolls, SendPolls + 1}, fin : {0, EIO}]

NextSendQueue ==
    SendOcmMessage({MSG_PWR_SRC_CAP, MSG_HARD_RST},
                   {Payload(n) : n \in {0, 4, PktSize - 3, PktSize - 2}}, QueueEnvs)

SpecSendQueue == InitTransport /\ [][NextSendQueue]_vars

(* SpecRoundTrip: the status interrupt receives frames that                *)
(* anx7688_send_ocm_message builds, for every payload length, some with    *)
(* stale bytes after the frame                                             *)

(* a block that holds the frame send builds for cmd and data, with the
   byte tail in the rest of the 32 bytes *)
FrameEnv(cmd, data, tail) ==
    [ rd |-> 0,
      pkt |-> [i \in 1..PktSize |->
                  IF i <= Len(data) + 3 THEN ocm_frame(cmd, data)[i] ELSE tail],
      max_v |-> 50, max_p |-> 30, psy_ret |-> 0,
      cmd |-> cmd, data |-> data ]

FrameEnvs ==
    {FrameEnv(c, Payload(n), 0) : c \in SendCmds, n \in 0..(PktSize - 3)}
    \cup {FrameEnv(c, [i \in 1..n |-> 255], 165) :
             c \in SendCmds, n \in 0..(PktSize - 3)}

NextRoundTrip ==
    \/ IrqLock
    \/ IrqBody({1}, FrameEnvs, {StatusOk})

SpecRoundTrip == InitMessages /\ [][NextRoundTrip]_vars

----------------------------------------------------------------------------
(* Claims about the connection lifecycle                                   *)

(* the results of the steps of a connect in their order, 0 where the step
   succeeds *)
ConnectStepResults(e, nsrc, nsnk) ==
    <<e.vconn,
      IF e.fw_late < FwPolls THEN 0 ELSE ETIMEDOUT,
      IF e.fwver < 0 THEN e.fwver ELSE 0>>
    \o e.regw
    \o <<anx7688_send_ocm_message(4 * nsrc, e.send[1]),
         anx7688_send_ocm_message(4 * nsnk, e.send[2]),
         anx7688_send_ocm_message(16, e.send[3]),
         anx7688_send_ocm_message(4, e.send[4]),
         e.partner>>

FirstFailure(rs) ==
    IF \A i \in 1..Len(rs) : rs[i] = 0 THEN 0
    ELSE rs[CHOOSE i \in 1..Len(rs) :
                rs[i] # 0 /\ \A j \in 1..(i - 1) : rs[j] = 0]

ConnectRan == Did(hist, "connect")

Unwound ==
    /\ "CONNECTED" \notin anx.flags
    /\ "POWERED" \notin anx.flags
    /\ ~anx.vconn_on
    /\ anx.vconn_reg = 0
    /\ anx.current_update_deadline = 0

(* C1: a connect returns the error of its first failing step, and a connect
   that returns an error leaves Connected and Powered clear, the VCONN rail
   disabled and no current-update deadline armed *)
C1_ConnectFailureUnwinds ==
    ConnectRan =>
        /\ hist.conn_ret = FirstFailure(ConnectStepResults(hist.conn_env,
                                            anx.n_src_caps, anx.n_snk_caps))
        /\ hist.conn_ret # 0 => Unwound

(* a connect that failed at its last step, the partner registration *)
C1_Witness ==
    /\ ConnectRan
    /\ Did(hist, "svid")
    /\ hist.conn_ret = ENOMEM
    /\ Did(hist, "vconn_disable")
    /\ Unwound

Disconnected ==
    /\ anx.pwr_role = "SINK" /\ anx.port_pwr_role = "SINK"
    /\ anx.data_role = "DEVICE" /\ anx.port_data_role = "DEVICE"
    /\ anx.port_pwr_opmode = "USB"
    /\ anx.port_vconn_role = "SINK"
    /\ ~anx.vbus_on /\ anx.vbus_reg = 0
    /\ ~anx.vconn_on /\ anx.vconn_reg = 0
    /\ "POWERED" \notin anx.flags
    /\ ~anx.pd_capable
    /\ anx.partner = "NULL" /\ anx.n_partners = 0
    /\ anx.current_update_deadline = 0
    /\ anx.extcon_hpd = 0
    /\ anx.role_sw = "NONE"
    /\ anx.psy_icl = DisconnectLimitMa * 1000
    /\ anx.psy_online = 0
    /\ anx.psy_bc_enabled = 1
    /\ "CONNECTED" \notin anx.flags

(* C2: after a disconnect, whoever called it and whatever the session was,
   the roles are Sink, Device, USB and VCONN Sink, both rails are off,
   Powered is clear, pd_capable is false, the partner is released, the
   deadline is unset, HPD is 0, the role switch is NONE, the input limit is
   500 mA, the input is offline, BC1.2 is enabled and Connected is clear *)
C2_DisconnectPostcondition == Did(hist, "disconnect") => Disconnected

(* the worker disconnects a session in which HPD was asserted *)
C2_Witness ==
    /\ hist.act = "work"
    /\ Did(hist, "disconnect")
    /\ Did(hist, "hpd")
    /\ Disconnected

(* the connect got its VCONN rail and then polled for the firmware *)
FwPolled == ConnectRan /\ hist.conn_env.vconn = 0

(* C3: when none of the 100 polls shows the firmware-loaded bit, the connect
   returns ETIMEDOUT, FW_FAILED is set, VCONN and the chip power are off and
   the device is not Connected; a poll that shows the bit, the last one
   included, does not set FW_FAILED *)
C3_FirmwareTimeout ==
    FwPolled =>
        IF hist.conn_env.fw_late >= FwPolls
        THEN /\ hist.conn_ret = ETIMEDOUT
             /\ "FW_FAILED" \in anx.flags
             /\ Unwound
        ELSE "FW_FAILED" \notin anx.flags

(* the bit would have shown on the 101st poll *)
C3_Witness ==
    /\ FwPolled
    /\ hist.conn_env.fw_late = FwPolls
    /\ hist.conn_ret = ETIMEDOUT
    /\ "FW_FAILED" \in anx.flags
    /\ Did(hist, "vconn_disable") /\ Did(hist, "power_disable")

(* C4: while FW_FAILED is set no step, whatever scheduled the worker,
   attempts a connect: the worker returns at its first test, without taking
   the lock and without touching the device *)
C4_FwFailedBlocksConnect ==
    [][ "FW_FAILED" \in anx.flags =>
            /\ ~Did(hist', "connect")
            /\ work_pc' = "idle"
            /\ hist'.act = "work_skip" => anx' = anx ]_vars

(* the worker has just returned at its first test although a cable is there *)
C4_Witness ==
    /\ hist.act = "work_skip"
    /\ "FW_FAILED" \in anx.flags
    /\ cabledet
    /\ "CONNECTED" \notin anx.flags

(* C5: FW_FAILED is cleared by both manual triggers: it is clear after a
   successful reflash and after a hwreset, so that the re-evaluation the
   trigger schedules attempts a connect *)
C5_TriggersClearFwFailed ==
    (hist.act = "hwreset" \/ (hist.act = "flash" /\ Did(hist, "flashed")))
        => "FW_FAILED" \notin anx.flags

(* the half of C5 the code keeps: a successful reflash clears FW_FAILED, a
   failed one does not *)
C5_ReflashClearsFwFailed ==
    [][ hist'.act = "flash" =>
            IF Did(hist', "flashed") THEN "FW_FAILED" \notin anx'.flags
            ELSE ("FW_FAILED" \in anx'.flags) = ("FW_FAILED" \in anx.flags) ]_vars

(* a hwreset has run with the cable present and FW_FAILED is still set *)
C5_Witness ==
    /\ hist.act = "hwreset"
    /\ "FW_FAILED" \in anx.flags
    /\ cabledet
    /\ work_pending # "idle"

(* C6: a run of the worker calls connect exactly when the cable is detected
   and Connected is clear, calls disconnect exactly when no cable is detected
   and Connected is set, and calls neither when the two agree *)
C6_ReevaluationMatchesLevel ==
    [][ hist'.act = "work" =>
            /\ Did(hist', "connect")
                   <=> (cabledet /\ "CONNECTED" \notin anx.flags)
            /\ Did(hist', "disconnect")
                   <=> (~cabledet /\ "CONNECTED" \in anx.flags) ]_vars

(* the worker ran with the cable present and the session up: neither *)
C6_Witness ==
    /\ hist.act = "work"
    /\ cabledet
    /\ "CONNECTED" \in anx.flags
    /\ Did(hist, "update_status")
    /\ ~Did(hist, "connect")
    /\ ~Did(hist, "disconnect")

(* C8: an edge that arrives while the debounced re-evaluation is pending
   restarts the 10 ms delay, so the delay runs out only when the detect line
   has been quiet for a full 10 ms *)
C8_EdgeRestartsDebounce ==
    [][ /\ (hist'.act = "plug_irq" /\ work_pending = "timer")
            => work_delay' = DebounceMs
        /\ (work_pending = "timer" /\ work_pending' = "queued")
            => quiet >= DebounceMs ]_vars

(* the re-evaluation is queued although the line changed less than 10 ms ago *)
C8_Witness ==
    /\ hist.act = "delay_expire"
    /\ work_pending = "queued"
    /\ quiet < DebounceMs

(* the detect level disagrees with Connected and nothing excuses it *)
Disagree ==
    /\ cabledet # ("CONNECTED" \in anx.flags)
    /\ "FW_FAILED" \notin anx.flags
    /\ ~suspended
    /\ rm_pc = "idle"

(* the worker has just called the connect or disconnect the level asks for *)
Reevaluated ==
    /\ hist.act = "work"
    /\ \/ cabledet /\ Did(hist, "connect")
       \/ ~cabledet /\ Did(hist, "disconnect")

(* C7: with no edge interrupt ever delivered, a disagreement between the
   detect level and Connected lasts only until the worker, scheduled by the
   watchdog, calls the matching connect or disconnect (or until the level
   changes, FW_FAILED is set, or the device is suspended or removed); a
   cable that stays absent eventually leaves Connected clear *)
C7_WatchdogReevaluates ==
    /\ Disagree ~> (~Disagree \/ Reevaluated)
    /\ (Disagree /\ ~cabledet)
           ~> (cabledet \/ suspended \/ rm_pc # "idle"
               \/ "CONNECTED" \notin anx.flags)

(* the worker disconnected after a cable removal whose edge was lost *)
C7_Witness ==
    /\ Reevaluated
    /\ ~cabledet
    /\ "CONNECTED" \notin anx.flags
    /\ ~suspended
    /\ rm_pc = "idle"

----------------------------------------------------------------------------
(* Claims about the concurrency of the contexts                            *)

(* the contexts that are inside a locked sequence *)
Inside ==
    {c \in {"work", "irq", "user", "remove"} :
        \/ c = "work" /\ work_pc = "locked"
        \/ c = "irq" /\ irq_pc = "locked"
        \/ c = "user" /\ user_pc # "idle"
        \/ c = "remove" /\ rm_pc = "cancel"}

LockExclusive ==
    /\ Cardinality(Inside) <= 1
    /\ Inside = IF lock = "none" THEN {} ELSE {lock}

(* the context a step belongs to *)
ContextOf(a) ==
    IF a \in {"work", "irq", "remove"} THEN a
    ELSE IF a \in {"hwreset", "flash", "firmware_show", "regs_show", "dr_set"}
         THEN "user"
    ELSE "nobody"

(* the session state: the device record without the PWRSUPPLY_CHANGE bit the
   notifier sets atomically and without the i2c supply of suspend/resume *)
Session(a) == [a EXCEPT !.flags = @ \ {"PWRSUPPLY_CHANGE"}, !.i2c_on = TRUE]

(* a step that changes session state or accesses the chip; the passing of
   time only re-bases the deadline *)
Touches ==
    /\ hist'.act # "tick"
    /\ hist'.log # << >> \/ Session(anx') # Session(anx)

(* C9: no two contexts are inside a locked sequence at the same time, and
   every step of the worker, the status interrupt, the role-set operation,
   the reset and flash triggers, the diagnostics, suspend, resume and remove
   that changes session state or accesses the chip is taken by the context
   that holds the lock *)
C9_LockSerializes ==
    /\ []LockExclusive
    /\ [][Touches => lock = ContextOf(hist'.act)]_vars

(* the status interrupt is inside its locked sequence while the worker,
   already started, waits for the lock *)
C9_Witness ==
    /\ lock = "irq"
    /\ irq_pc = "locked"
    /\ work_pc = "lock"
    /\ "CONNECTED" \in anx.flags

(* C10: remove always completes: it never waits for a worker that cannot
   finish, and when it is done the timer and the work are cancelled,
   Connected is clear and the chip is powered off *)
C10_RemoveCompletes ==
    /\ rm_pc = "cancel" => work_pc # "lock"
    /\ rm_pc = "done" =>
           /\ "CONNECTED" \notin anx.flags
           /\ "POWERED" \notin anx.flags
           /\ ~timer_armed
           /\ work_pending = "idle"

(* remove holds the lock and waits in cancel_delayed_work_sync for the
   worker, which has started and waits for the lock *)
C10_Witness ==
    /\ rm_pc = "cancel"
    /\ lock = "remove"
    /\ work_pc = "lock"
    /\ ~ENABLED RemoveFinish
    /\ ~ENABLED WorkLock

----------------------------------------------------------------------------
(* C11: the current-limit engine runs only in the deferred worker, only    *)
(* with Connected set, a deadline armed and the clock strictly past it;    *)
(* the deadline is cleared by then, and the engine runs once in that step. *)

Times(log, tag) == Cardinality({i \in 1..Len(log) : log[i] = tag})

EngineRan == Did(hist, "current_update")

C11_EngineDeadlineGated ==
    [][ Did(hist', "current_update") =>
          /\ hist'.act = "work"
          /\ "CONNECTED" \in anx.flags /\ "CONNECTED" \in anx'.flags
          /\ anx.current_update_deadline # 0
          /\ Now > anx.current_update_deadline
          /\ anx'.current_update_deadline = 0
          /\ Times(hist'.log, "current_update") = 1 ]_vars

C11_Witness ==
    /\ EngineRan
    /\ hist.act = "work"
    /\ anx.current_update_deadline = 0
    /\ "CONNECTED" \in anx.flags

----------------------------------------------------------------------------
(* Claims about the current-limit engine, on the state a run leaves        *)

(* the two CC nibbles of the cached CC status the run resolved *)
Pin1 == anx.last_cc_status % 16
Pin2 == (anx.last_cc_status \div 16) % 16
Classifies(n) == n \in {4, 8, 12}

(* the run resolved this mode and this current limit in mA *)
Resolved(mode, ma) ==
    anx.port_pwr_opmode = mode /\ anx.input_current_limit = ma

(* C12 as stated: with pd_capable false, a nibble of 8 on either pin gives *)
(* 1.5A and 1500 mA and a nibble of 12 on either pin gives 3.0A and        *)
(* 3000 mA, whatever the other pin's nibble is.                            *)
C12_EitherPinWins ==
    (EngineRan /\ ~anx.pd_capable) =>
        /\ (Pin1 = 8 \/ Pin2 = 8) => Resolved("1.5A", 1500)
        /\ (Pin1 = 12 \/ Pin2 = 12) => Resolved("3.0A", 3000)

(* C12, amended: with pd_capable false, a nibble of 8 (12) on the first    *)
(* pin gives 1.5A/1500 mA (3.0A/3000 mA) whatever the second pin reads; on *)
(* the second pin it does so when the first pin's nibble is none of 4, 8,  *)
(* 12.                                                                     *)
C12_FirstClassifyingPinWins ==
    (EngineRan /\ ~anx.pd_capable) =>
        /\ Pin1 = 8 => Resolved("1.5A", 1500)
        /\ Pin1 = 12 => Resolved("3.0A", 3000)
        /\ (Pin2 = 8 /\ ~Classifies(Pin1)) => Resolved("1.5A", 1500)
        /\ (Pin2 = 12 /\ ~Classifies(Pin1)) => Resolved("3.0A", 3000)

C12_Witness ==
    /\ EngineRan /\ ~anx.pd_capable
    /\ Pin2 = 8 /\ Pin1 = 2
    /\ Resolved("1.5A", 1500)

(* what a CC nibble says about the current the partner offers *)
ClassOf(n) ==
    CASE n = 4 -> "USB" [] n = 8 -> "1.5A" [] n = 12 -> "3.0A" [] OTHER -> "none"

(* C13: with pd_capable false the resolved mode is, for every cached CC    *)
(* status including the sentinel -1, the class of the first pin if it has  *)
(* one, else the class of the second pin if it has one, else USB.          *)
C13_PinPrecedence ==
    (EngineRan /\ ~anx.pd_capable) =>
        anx.port_pwr_opmode =
            IF Classifies(Pin1) THEN ClassOf(Pin1)
            ELSE IF Classifies(Pin2) THEN ClassOf(Pin2)
            ELSE "USB"

(* a run on the sentinel *)
C13_Witness ==
    /\ EngineRan /\ ~anx.pd_capable
    /\ anx.last_cc_status = -1
    /\ anx.port_pwr_opmode = "USB"

(* the fallback-detection query of the run failed or reported it disabled *)
NoFallback(e) == e.bc_ret # 0 \/ e.bc_val = 0

(* C14: with pd_capable false and both CC nibbles in 0..2 the run resolves *)
(* USB mode, issues no write that disables fallback charger detection, and *)
(* writes the input current limit (500 mA) exactly when the fallback query *)
(* fails or reports detection disabled; otherwise the limit is untouched.  *)
C14_UnclassifiedUsesFallback ==
    [][ (EngineRan' /\ ~anx'.pd_capable /\ Pin1' \in 0..2 /\ Pin2' \in 0..2) =>
          /\ Resolved("USB", 0)'
          /\ ~Did(hist', "psy_bc_enabled")
          /\ anx'.psy_bc_enabled = anx.psy_bc_enabled
          /\ IF NoFallback(hist'.upd_env)
             THEN /\ Did(hist', "psy_icl")
                  /\ anx'.psy_icl = IF hist'.upd_env.icl_ret = 0
                                    THEN 500 * 1000 ELSE anx.psy_icl
             ELSE /\ ~Did(hist', "psy_icl")
                  /\ anx'.psy_icl = anx.psy_icl ]_vars

(* a run that left the limit to the fallback subsystem *)
C14_Witness ==
    /\ EngineRan /\ ~anx.pd_capable
    /\ Pin1 = 1 /\ Pin2 = 2
    /\ ~NoFallback(hist.upd_env)
    /\ ~Did(hist, "psy_icl")
    /\ anx.port_pwr_opmode = "USB"

(* the run issued the write that disables fallback charger detection and
   the write of the input current limit ma; a write that succeeded shows *)
Programmed(ma) ==
    /\ Did(hist, "psy_bc_enabled") /\ Did(hist, "psy_icl")
    /\ hist.upd_env.bc_set_ret = 0 => anx.psy_bc_enabled = 0
    /\ hist.upd_env.icl_ret = 0 => anx.psy_icl = ma * 1000

(* C15 as stated: every run with pd_capable true resolves PD, disables     *)
(* fallback charger detection and programs the input current limit to      *)
(* pd_current_limit.                                                       *)
C15_PdAlwaysProgrammed ==
    (EngineRan /\ anx.pd_capable) =>
        /\ Resolved("PD", anx.pd_current_limit)
        /\ Programmed(anx.pd_current_limit)

(* C15, amended: every run with pd_capable true resolves PD; when          *)
(* pd_current_limit is not 0 it disables fallback charger detection and    *)
(* programs the input current limit to pd_current_limit; when it is 0 it   *)
(* leaves detection enabled and writes a limit only if the fallback query  *)
(* fails or reports detection disabled.                                    *)
C15_PdProgrammedWhenNonZero ==
    (EngineRan /\ anx.pd_capable) =>
        /\ Resolved("PD", anx.pd_current_limit)
        /\ IF anx.pd_current_limit # 0
           THEN Programmed(anx.pd_current_limit)
           ELSE /\ ~Did(hist, "psy_bc_enabled")
                /\ Did(hist, "psy_icl") <=> NoFallback(hist.upd_env)

C15_Witness ==
    /\ EngineRan /\ anx.pd_capable
    /\ anx.pd_current_limit = 3000
    /\ anx.port_pwr_opmode = "PD"
    /\ anx.psy_bc_enabled = 0
    /\ anx.psy_icl = 3000 * 1000

(* the mode a run resolves from pd_capable and the cached CC status *)
ResolvedMode ==
    IF anx.pd_capable THEN "PD"
    ELSE IF Classifies(Pin1) THEN ClassOf(Pin1)
    ELSE IF Classifies(Pin2) THEN ClassOf(Pin2)
    ELSE "USB"

(* C16: every run of the engine, whatever mode it resolves and whatever    *)
(* the earlier property writes returned, ends with the write that brings   *)
(* the input power path online (online once that write succeeds) and with  *)
(* the port's power operating mode set to the resolved mode.               *)
C16_EngineEndsOnline ==
    EngineRan =>
        /\ hist.log[Len(hist.log)] = "psy_online"
        /\ hist.upd_env.online_ret = 0 => anx.psy_online = 1
        /\ anx.port_pwr_opmode = ResolvedMode

(* a run whose two earlier property writes failed *)
C16_Witness ==
    /\ EngineRan
    /\ hist.upd_env.bc_set_ret # 0 /\ hist.upd_env.icl_ret # 0
    /\ Did(hist, "psy_bc_enabled") /\ Did(hist, "psy_icl")
    /\ anx.psy_online = 1
    /\ anx.port_pwr_opmode = "1.5A"

----------------------------------------------------------------------------
(* Claims about received messages, on the step of the status interrupt     *)

(* the step handed a message with this command to the interpreter *)
Interpreted(h, cmd) == Did(h, "pd_message") /\ h.recv_env.pkt[2] = cmd

(* C17: a source-capability report whose length is a multiple of 4, with   *)
(* the max-voltage register reading v # 0 and the max-power register       *)
(* reading p, sets pd_capable, sets pd_current_limit to floor(p * 5000 /   *)
(* v) mA and arms the current-limit deadline 500 ms from now.              *)
C17_SrcCapLimit ==
    LET e == hist.recv_env IN
    ( /\ Interpreted(hist, MSG_PWR_SRC_CAP)
      /\ (e.pkt[1] - 1) % 4 = 0
      /\ e.max_v > 0 /\ e.max_p >= 0 ) =>
        /\ anx.pd_capable
        /\ anx.pd_current_limit = (e.max_p * 5000) \div e.max_v
        /\ anx.current_update_deadline = Now + 500

(* the report of the specification's example: p = 30, v = 50, 3000 mA *)
C17_Witness ==
    /\ Interpreted(hist, MSG_PWR_SRC_CAP)
    /\ hist.recv_env.max_p = 30 /\ hist.recv_env.max_v = 50
    /\ hist.recv_env.pkt[1] = 5
    /\ anx.pd_capable
    /\ anx.pd_current_limit = 3000
    /\ anx.current_update_deadline = Now + 500

(* C18: a Hard-Reset message with pd_capable true takes the input power    *)
(* path offline at once (the write is issued, and the path is offline once *)
(* it succeeds), sets the current-limit deadline 3000 ms from now and does *)
(* not run the engine; with pd_capable false it changes nothing of the     *)
(* session and issues no write to the input path.                          *)
C18_HardReset ==
    [][ Interpreted(hist', MSG_HARD_RST) =>
          IF anx.pd_capable
          THEN /\ Did(hist', "psy_online")
               /\ hist'.recv_env.psy_ret = 0 => anx'.psy_online = 0
               /\ anx'.current_update_deadline = Now + 3000
               /\ ~Did(hist', "current_update")
          ELSE /\ anx' = anx
               /\ ~Did(hist', "psy_online") ]_vars

C18_Witness ==
    /\ Interpreted(hist, MSG_HARD_RST)
    /\ anx.pd_capable
    /\ anx.psy_online = 0
    /\ anx.current_update_deadline = Now + 3000

(* a 32-byte block that is no frame: its length byte is 0 or above 30, or
   its first length + 2 bytes do not sum to 0 modulo 256 *)
Malformed(pkt) ==
    \/ pkt[1] = 0
    \/ pkt[1] > 30
    \/ SumBytes(pkt, pkt[1] + 2) % 256 # 0

(* C19: when the block read is malformed, receive returns an error, the    *)
(* message interpreter is not invoked and the driver's state (pd_capable,  *)
(* pd_current_limit, deadline, flags, roles, rails and all the rest) is    *)
(* unchanged.                                                              *)
C19_MalformedRejected ==
    [][ ( /\ Did(hist', "receive_msg")
          /\ hist'.recv_env.rd >= 0
          /\ Malformed(hist'.recv_env.pkt) ) =>
          /\ hist'.recv_ret < 0
          /\ ~Did(hist', "pd_message")
          /\ anx' = anx ]_vars

(* a source-capability report with a wrong checksum, received by a session
   without PD and rejected *)
C19_Witness ==
    /\ Did(hist, "receive_msg")
    /\ hist.recv_env.rd >= 0
    /\ hist.recv_env.pkt[1] = 5 /\ hist.recv_env.pkt[2] = MSG_PWR_SRC_CAP
    /\ Malformed(hist.recv_env.pkt)
    /\ hist.recv_ret = EINVAL
    /\ ~anx.pd_capable

----------------------------------------------------------------------------
(* Claims about the message transport                                      *)

(* C20: for every command byte and every payload of 0..29 bytes the frame  *)
(* built by send is payload length + 1, command, payload, checksum, and    *)
(* its payload length + 3 bytes sum to 0 modulo 256.                       *)
C20_FrameSumsToZero ==
    (hist.act = "send" /\ Len(hist.sent.data) <= 29) =>
        LET f == hist.sent.frame
            n == Len(hist.sent.data)
        IN  /\ Len(f) = n + 3
            /\ f[1] = n + 1
            /\ f[2] = hist.sent.cmd
            /\ SubSeq(f, 3, n + 2) = hist.sent.data
            /\ f[n + 3] \in 0..255
            /\ SumBytes(f, n + 3) = 0

(* the longest payload, with a checksum byte that is not 0 *)
C20_Witness ==
    /\ hist.act = "send"
    /\ Len(hist.sent.data) = 29
    /\ hist.sent.cmd = 242
    /\ Len(hist.sent.frame) = 32
    /\ hist.sent.frame[32] # 0
    /\ hist.sent.ret = 0

(* C21: a block whose length byte is in 1..30 and whose first length + 2   *)
(* bytes sum to 0 modulo 256 is accepted by receive, which hands the       *)
(* interpreter the frame's command byte and its length - 1 payload bytes;  *)
(* for a frame that send built from a command and a payload these are that *)
(* command and that payload.                                               *)
C21_RoundTrip ==
    LET e == hist.recv_env IN
    (Did(hist, "receive_msg") /\ e.rd >= 0 /\ ~Malformed(e.pkt)) =>
        /\ hist.recv_ret = 0
        /\ Did(hist, "pd_message")
        /\ hist.pd_msg.cmd = e.pkt[2]
        /\ Len(hist.pd_msg.data) = e.pkt[1] - 1
        /\ \A i \in 1..(e.pkt[1] - 1) : hist.pd_msg.data[i] = e.pkt[i + 2]
        /\ "data" \in DOMAIN e =>
              hist.pd_msg.cmd = e.cmd /\ hist.pd_msg.data = e.data

(* the longest frame of send, round-tripped *)
C21_Witness ==
    /\ Did(hist, "pd_message")
    /\ "data" \in DOMAIN hist.recv_env
    /\ Len(hist.recv_env.data) = 29
    /\ hist.recv_env.cmd = 255
    /\ hist.pd_msg.data = hist.recv_env.data
    /\ hist.pd_msg.cmd = 255

(* C22: when the send-queue indicator does not read empty at the call,     *)
(* send returns Busy, does not write the frame and does not wait for the   *)
(* queue.                                                                  *)
C22_BusyNotWritten ==
    (hist.act = "send" /\ Len(hist.sent.data) <= 29 /\ hist.sent.env.pre > 0) =>
        /\ hist.sent.ret = EBUSY
        /\ hist.sent.writes = 0
        /\ hist.sent.polls = 0

C22_Witness ==
    /\ hist.act = "send"
    /\ hist.sent.env.pre = 1
    /\ Len(hist.sent.data) = 4
    /\ hist.sent.ret = EBUSY
    /\ hist.sent.writes = 0

(* C23: one call of send writes the frame at most once, and not at all     *)
(* when it returns Busy at the queue test or refuses a payload of more     *)
(* than 29 bytes; it polls the queue at most 300 times, returns Timeout    *)
(* when the queue is still occupied at every poll, and always returns.     *)
C23_SendBounded ==
    hist.act = "send" =>
        LET s == hist.sent IN
        /\ s.writes \in {0, 1}
        /\ (Len(s.data) > 29 \/ s.env.pre # 0) => s.writes = 0 /\ s.polls = 0
        /\ Len(s.data) > 29 => s.ret = EINVAL
        /\ s.polls \in 0..300
        /\ (s.writes = 1 /\ s.env.busy >= 300) => s.ret = ETIMEDOUT /\ s.polls = 300
        /\ s.ret \in {0, EINVAL, EBUSY, ETIMEDOUT, EIO}

C23_Witness ==
    /\ hist.act = "send"
    /\ hist.sent.writes = 1
    /\ hist.sent.polls = 300
    /\ hist.sent.env.busy > 300
    /\ hist.sent.ret = ETIMEDOUT

ConnectSteps ==
    <<"power_enable", "vconn_enable", "fw_loaded", "configured", "src_cap",
      "snk_cap", "dp_snk_identity", "svid", "partner">>

IsConnectStep(tag) == \E i \in 1..Len(ConnectSteps) : ConnectSteps[i] = tag

AllStepsSucceed ==
    LET rs == ConnectStepResults(hist.conn_env, anx.n_src_caps, anx.n_snk_caps)
    IN  \A i \in 1..Len(rs) : rs[i] = 0

(* C24: a connect whose every step succeeds performs power-enable, VCONN   *)
(* enable, firmware-ready, register configuration, the source-capability,  *)
(* sink-capability, DP sink identity and SVID messages and the partner     *)
(* registration in that order, and ends with Connected and Powered set,    *)
(* vconn_on true, exactly one partner registered, the cached status values *)
(* at -1 and the current-limit deadline 3000 ms ahead.                     *)
C24_ConnectSuccess ==
    (ConnectRan /\ AllStepsSucceed) =>
        LET end == hist.conn_end IN
        /\ SelectSeq(hist.log, IsConnectStep) = ConnectSteps
        /\ hist.conn_ret = 0
        /\ {"CONNECTED", "POWERED"} \subseteq end.flags
        /\ end.vconn_on
        /\ end.partner = "PARTNER"
        /\ end.n_partners = 1
        /\ end.last_status = -1
        /\ end.last_cc_status = -1
        /\ end.last_dp_state = -1
        /\ end.current_update_deadline = Now + ConnectDeadlineMs

C24_Witness ==
    /\ ConnectRan
    /\ AllStepsSucceed
    /\ hist.conn_env.fw_late = FwPolls - 1
    /\ "CONNECTED" \in hist.conn_end.flags
    /\ hist.conn_end.n_partners = 1

(* C25: at most one partner is registered at any time, the partner handle  *)
(* is a registered partner exactly when one is registered, and whenever    *)
(* the lock is free a partner is registered exactly when Connected is set. *)
C25_OnePartner ==
    /\ anx.n_partners \in {0, 1}
    /\ anx.n_partners = 1 <=> anx.partner = "PARTNER"
    /\ lock = "none" => (anx.n_partners = 1 <=> "CONNECTED" \in anx.flags)

C25_Witness ==
    /\ lock = "none"
    /\ hist.act = "work"
    /\ ConnectRan
    /\ hist.conn_ret = 0
    /\ anx.n_partners = 1
    /\ "CONNECTED" \in anx.flags

ConnectedSet == "CONNECTED" \in anx.flags
PoweredSet == "POWERED" \in anx.flags
PoweredOn == Did(hist, "power_enable")
ConnectCompleted ==
    /\ ConnectRan
    /\ AllStepsSucceed
    /\ hist.conn_ret = 0
    /\ "CONNECTED" \in hist.conn_end.flags

(* C26: a step sets Connected only by a connect whose every step           *)
(* succeeded, a step sets Powered only by powering the chip on, and        *)
(* whenever the lock is free Connected set implies Powered set.            *)
C26_FlagsSetOnlyBy ==
    /\ [](lock = "none" /\ ConnectedSet => PoweredSet)
    /\ [][(~ConnectedSet /\ ConnectedSet') => ConnectCompleted']_vars
    /\ [][(~PoweredSet /\ PoweredSet') => PoweredOn']_vars

C26_Witness ==
    /\ lock = "none"
    /\ ConnectCompleted
    /\ PoweredOn
    /\ ConnectedSet
    /\ PoweredSet

(* C27: with every collaborator of connect succeeding and the send queue   *)
(* empty and draining, connect sends the source and the sink capabilities  *)
(* and succeeds, for every configured number of source and of sink         *)
(* capabilities in 1..8.                                                   *)
C27_EveryCapCountConnects ==
    (ConnectRan /\ hist.conn_env = ConnectOk
        /\ anx.n_src_caps \in 1..8 /\ anx.n_snk_caps \in 1..8) =>
        /\ Did(hist, "src_cap")
        /\ Did(hist, "snk_cap")
        /\ hist.conn_ret = 0
        /\ "CONNECTED" \in hist.conn_end.flags

C27_Witness ==
    /\ ConnectRan
    /\ hist.conn_env = ConnectOk
    /\ anx.n_src_caps = 7
    /\ anx.n_snk_caps = 8
    /\ Did(hist, "src_cap")
    /\ ~Did(hist, "snk_cap")
    /\ hist.conn_ret = EINVAL
    /\ Unwound

(* with at most seven capabilities of each kind the same connect succeeds *)
C27_UpToSevenConnect ==
    (ConnectRan /\ hist.conn_env = ConnectOk
        /\ anx.n_src_caps \in 1..7 /\ anx.n_snk_caps \in 1..7) =>
        /\ Did(hist, "src_cap")
        /\ Did(hist, "snk_cap")
        /\ hist.conn_ret = 0

(* Claims about power-object requests, on the step of the status interrupt *)

RequestLen(h) == h.recv_env.pkt[1] - 1
RequestIndex(h) == rdo_index(h.recv_env.pkt)
RequestInRange(h, a) ==
    RequestLen(h) = 4 /\ RequestIndex(h) \in 1..a.n_src_caps

(* C28: handling a power-object request of any length and any object       *)
(* index leaves pd_capable, pd_current_limit and the current-limit         *)
(* deadline as they were and returns success.                              *)
C28_RequestChangesNothing ==
    [][Interpreted(hist', MSG_PWR_OBJ_REQ) =>
          /\ anx'.pd_capable = anx.pd_capable
          /\ anx'.pd_current_limit = anx.pd_current_limit
          /\ anx'.current_update_deadline = anx.current_update_deadline
          /\ hist'.pd_ret = 0 /\ hist'.recv_ret = 0]_vars

(* C28 as the driver has it: handling a power-object request of any length *)
(* and any object index sets pd_capable, leaves every other field of the   *)
(* session as it was, sends nothing and returns success; the advertised    *)
(* PDO is looked up exactly when the request is 4 bytes long and its index *)
(* is within 1..n_src_caps.                                                *)
C28_RequestMarksPdCapable ==
    [][Interpreted(hist', MSG_PWR_OBJ_REQ) =>
          /\ anx' = [anx EXCEPT !.pd_capable = TRUE]
          /\ hist'.pd_ret = 0 /\ hist'.recv_ret = 0
          /\ hist'.sent = << >>
          /\ Did(hist', "pdo_lookup") <=> RequestInRange(hist', anx)]_vars

C28_Witness ==
    /\ Interpreted(hist, MSG_PWR_OBJ_REQ)
    /\ RequestLen(hist) = 4
    /\ RequestIndex(hist) = 7
    /\ anx.n_src_caps = 7
    /\ Did(hist, "pdo_lookup")
    /\ anx.pd_capable
    /\ anx.pd_current_limit = 0

(* the error of the first status register read that fails in the handling
   of a source-capability report, 0 when none fails *)
SrcCapReadError(e) ==
    IF e.max_v < 0 THEN e.max_v
    ELSE IF e.max_v > 0 /\ e.max_p < 0 THEN e.max_p
    ELSE 0

SrcCapReadFails(h) ==
    /\ Interpreted(h, MSG_PWR_SRC_CAP)
    /\ (h.recv_env.pkt[1] - 1) % 4 = 0
    /\ SrcCapReadError(h.recv_env) # 0

(* C29: when the read of the max-voltage or of the max-power register      *)
(* fails in the handling of a source-capability report, the handler        *)
(* returns that error, receive returns it to its caller, and               *)
(* pd_current_limit and the current-limit deadline stay as they were.      *)
C29_ReadErrorReported ==
    [][SrcCapReadFails(hist') =>
          /\ hist'.pd_ret = SrcCapReadError(hist'.recv_env)
          /\ hist'.recv_ret = SrcCapReadError(hist'.recv_env)
          /\ anx'.pd_current_limit = anx.pd_current_limit
          /\ anx'.current_update_deadline = anx.current_update_deadline]_vars

(* what the driver does: the handler returns the error, receive returns 0 *)
C29_ReadErrorDropped ==
    [][SrcCapReadFails(hist') =>
          /\ hist'.pd_ret = SrcCapReadError(hist'.recv_env)
          /\ hist'.recv_ret = 0
          /\ anx'.pd_current_limit = anx.pd_current_limit
          /\ anx'.current_update_deadline = anx.current_update_deadline]_vars

C29_Witness ==
    /\ SrcCapReadFails(hist)
    /\ hist.recv_env.max_v = 50
    /\ hist.recv_env.max_p = EIO
    /\ hist.pd_ret = EIO
    /\ hist.recv_ret = 0
    /\ anx.pd_capable

(* Claims about a failed frame write inside a connect                      *)

SendLens(a) == <<4 * a.n_src_caps, 4 * a.n_snk_caps, 16, 4>>

(* the i-th send of the connect was called, wrote its frame, and the write
   failed *)
SendWriteFailed(i) ==
    LET e == hist.conn_env
        rs == ConnectStepResults(e, anx.n_src_caps, anx.n_snk_caps)
    IN  /\ ConnectRan
        /\ \A j \in 1..(12 + i) : rs[j] = 0
        /\ send_writes(SendLens(anx)[i], e.send[i]) = 1
        /\ e.send[i].wr < 0

(* C30: when the write of a frame to the chip fails inside a send of a     *)
(* connect, the send returns the error of the write and the connect        *)
(* returns it and ends unwound, without Connected.                         *)
C30_WriteFailureAborts ==
    \A i \in 1..4 :
        SendWriteFailed(i) =>
            /\ hist.conn_ret = hist.conn_env.send[i].wr
            /\ "CONNECTED" \notin hist.conn_end.flags
            /\ "POWERED" \notin hist.conn_end.flags

(* what the driver does: the result of the send, and of the connect, is    *)
(* that of the polls after the write                                       *)
C30_WriteFailureIgnored ==
    \A i \in 1..4 :
        SendWriteFailed(i) =>
            /\ anx7688_send_ocm_message(SendLens(anx)[i], hist.conn_env.send[i])
                   = send_wait(hist.conn_env.send[i])
            /\ send_wait(hist.conn_env.send[i]) = 0
                   => Did(hist, ConnectSteps[4 + i])

C30_Witness ==
    /\ SendWriteFailed(2)
    /\ hist.conn_env.send[2].wr = EIO
    /\ Did(hist, "snk_cap")
    /\ hist.conn_ret = 0
    /\ "CONNECTED" \in hist.conn_end.flags

----------------------------------------------------------------------------
(* Claims about failures and about the status update                       *)

StatusFailed(h) == Did(h, "update_status") /\ h.status_ret # 0
ReceiveFailed(h) == Did(h, "receive_msg") /\ h.recv_ret # 0
ConnectFailed(h) == Did(h, "connect") /\ h.conn_ret # 0

RailsOff == ~anx.vconn_on /\ ~anx.vbus_on /\ anx.vconn_reg = 0 /\ anx.vbus_reg = 0

(* C31: after a step in which a connect, a status update or a message      *)
(* receive failed, Connected and Powered are clear and the switchable      *)
(* rails are off.                                                          *)
C31_FailureEndsDisconnected ==
    (ConnectFailed(hist) \/ StatusFailed(hist) \/ ReceiveFailed(hist)) =>
        /\ ~ConnectedSet
        /\ ~PoweredSet
        /\ RailsOff

(* C31 as the driver has it: a failed connect ends with Connected and      *)
(* Powered clear and the rails off; a failed status update or message      *)
(* receive leaves the session Connected and Powered with its partner       *)
(* registered.                                                             *)
C31_OnlyConnectFailureUnwinds ==
    /\ ConnectFailed(hist) => ~ConnectedSet /\ ~PoweredSet /\ RailsOff
    /\ (StatusFailed(hist) \/ ReceiveFailed(hist)) =>
           ConnectedSet /\ PoweredSet /\ anx.n_partners = 1

C31_Witness ==
    /\ hist.act = "work"
    /\ ~ConnectRan
    /\ StatusFailed(hist)
    /\ hist.status_ret = EIO
    /\ ConnectedSet
    /\ PoweredSet
    /\ anx.vbus_on

StatusSucceeded(h) == Did(h, "update_status") /\ h.status_ret = 0

(* the fields a successful status update derives from status register st,
   in state a *)
ReconciledVbus(a, st) ==
    /\ a.vbus_on = (Bit(st, 3) = 1)
    /\ a.vbus_reg = (IF a.vbus_on THEN 1 ELSE 0)
    /\ a.port_pwr_role = "SOURCE" <=> a.vbus_on
ReconciledVconn(a, st) ==
    /\ a.vconn_on = (Bit(st, 2) = 1)
    /\ a.vconn_reg = (IF a.vconn_on THEN 1 ELSE 0)
ReconciledDataRole(a, st) ==
    /\ a.port_data_role = "HOST" <=> Bit(st, 5) = 1
    /\ a.data_role = a.port_data_role
    /\ a.role_sw = (IF Bit(st, 5) = 1 THEN "HOST" ELSE "DEVICE")

(* C32: after a status update that returns success, vbus_on is status bit  *)
(* 3 with the VBUS rail enabled exactly when it is set and the port power  *)
(* role Source iff vbus_on; vconn_on is status bit 2 with the VCONN rail   *)
(* enabled exactly when it is set and the port VCONN role Source iff       *)
(* vconn_on; the port data role is Host iff status bit 5 and the role      *)
(* switch is Host or Device accordingly, a switch request being issued     *)
(* only when the switch disagreed.                                         *)
C32_StatusReconciled ==
    [][StatusSucceeded(hist') =>
          LET st == hist'.status_env.status IN
          /\ ReconciledVbus(anx', st)
          /\ ReconciledVconn(anx', st)
          /\ anx'.port_vconn_role = "SOURCE" <=> anx'.vconn_on
          /\ ReconciledDataRole(anx', st)
          /\ Did(hist', "role_switch") => anx.role_sw # anx'.role_sw]_vars

(* what holds of the port VCONN role: it is Source only while vconn_on;    *)
(* the rest of C32 holds as stated                                         *)
C32_ReconciledButVconnRole ==
    [][StatusSucceeded(hist') =>
          LET st == hist'.status_env.status IN
          /\ ReconciledVbus(anx', st)
          /\ ReconciledVconn(anx', st)
          /\ anx'.port_vconn_role = "SOURCE" => anx'.vconn_on
          /\ ReconciledDataRole(anx', st)
          /\ Did(hist', "role_switch") <=> anx.role_sw # anx'.role_sw]_vars

C32_Witness ==
    /\ StatusSucceeded(hist)
    /\ ConnectRan
    /\ Bit(hist.status_env.status, 2) = 1
    /\ anx.vconn_on
    /\ anx.vconn_reg = 1
    /\ anx.port_vconn_role = "SINK"

(* the step handed the interpreter a message it only logs *)
InterpretedLogOnly(h) ==
    Did(h, "pd_message") /\ h.recv_env.pkt[2] \in LogOnlyCmds

(* C33: handling a message whose command is none of source capabilities,   *)
(* power-object request and Hard-Reset (Accept, Reject, Soft-Reset,        *)
(* Restart, Response-to-request, the swap requests, the DisplayPort and    *)
(* identity messages, the queries, a sink-capability report, an unknown    *)
(* command) changes nothing of the session, sends nothing and returns      *)
(* success.                                                                *)
C33_LogOnlyMessages ==
    [][InterpretedLogOnly(hist') =>
          /\ anx' = anx
          /\ hist'.pd_ret = 0 /\ hist'.recv_ret = 0
          /\ hist'.sent = << >>
          /\ hist'.log = <<"receive_msg", "pd_message">>]_vars

C33_Witness ==
    /\ InterpretedLogOnly(hist)
    /\ hist.recv_env.pkt[2] = MSG_PWR_SNK_CAP
    /\ hist.recv_env.pkt[1] = 5
    /\ hist.recv_ret = 0
    /\ ~anx.pd_capable

(* the four register reads of the status update of the step succeeded *)
StatusRead(h) ==
    /\ Did(h, "update_status")
    /\ h.status_env.status >= 0 /\ h.status_env.cc_status >= 0
    /\ h.status_env.dp_state >= 0 /\ h.status_env.dp_substate >= 0

(* the number of writes of the hot-plug state in the step *)
HpdWrites(h) == Cardinality({i \in 1..Len(h.log) : h.log[i] = "hpd"})

(* C34: after a status poll whose four register reads succeed the hot-plug *)
(* state of the display is 1 if the DP state register is at least 3 and 0  *)
(* otherwise; after a disconnect it is 0; and a write of the hot-plug state *)
(* always differs from the value written before it.                        *)
C34_HotPlugFollowsDpState ==
    /\ [](anx.last_extcon_state \in {-1, anx.extcon_hpd})
    /\ [][ /\ StatusRead(hist') =>
                 anx'.extcon_hpd = (IF hist'.status_env.dp_state >= 3 THEN 1 ELSE 0)
           /\ Did(hist', "disconnect") => anx'.extcon_hpd = 0
           /\ HpdWrites(hist') <= 1
           /\ HpdWrites(hist') = 1 =>
                 /\ anx'.extcon_hpd # anx.last_extcon_state
                 /\ anx'.last_extcon_state = anx'.extcon_hpd
           /\ HpdWrites(hist') = 0 =>
                 /\ anx'.extcon_hpd = anx.extcon_hpd
                 /\ anx'.last_extcon_state = anx.last_extcon_state ]_vars

C34_Witness ==
    /\ StatusRead(hist)
    /\ hist.status_env.dp_state = 3
    /\ ~ConnectRan
    /\ HpdWrites(hist) = 1
    /\ anx.extcon_hpd = 1

FwFailedSet == "FW_FAILED" \in anx.flags

(* C35: FW_FAILED and Connected are never both set; a step raises          *)
(* FW_FAILED only by a connect that times out waiting for the firmware and *)
(* does not reach Connected; and no connect runs in a step that starts     *)
(* with FW_FAILED set.                                                     *)
C35_FwFailedExcludesConnected ==
    /\ [](~(FwFailedSet /\ ConnectedSet))
    /\ [][(~FwFailedSet /\ FwFailedSet') =>
              /\ ConnectRan'
              /\ hist'.conn_ret = ETIMEDOUT
              /\ "CONNECTED" \notin hist'.conn_end.flags
              /\ ~ConnectedSet']_vars
    /\ [][ConnectRan' => ~FwFailedSet]_vars

C35_Witness ==
    /\ ConnectRan
    /\ hist.conn_env.fw_late = FwPolls
    /\ hist.conn_ret = ETIMEDOUT
    /\ FwFailedSet
    /\ ~ConnectedSet
    /\ lock = "none"

(* C36: in every reachable state the net enable count of the VCONN         *)
(* regulator is 1 if vconn_on and 0 otherwise, and that of the VBUS        *)
(* regulator is 1 if vbus_on and 0 otherwise.                              *)
C36_RailsBalanced ==
    /\ anx.vconn_reg = (IF anx.vconn_on THEN 1 ELSE 0)
    /\ anx.vbus_reg = (IF anx.vbus_on THEN 1 ELSE 0)

(* a disconnect has just switched off both rails of a session that drove   *)
(* VBUS and VCONN                                                          *)
C36_Witness ==
    /\ hist.act = "work"
    /\ Did(hist, "disconnect")
    /\ anx.last_status = 44
    /\ anx.vconn_reg = 0 /\ ~anx.vconn_on
    /\ anx.vbus_reg = 0 /\ ~anx.vbus_on

----------------------------------------------------------------------------
(* Claims about the limit the engine programs for a PD partner             *)

(* C37: whenever the engine resolves PD mode, pd_current_limit was         *)
(* computed from a source-capability report received since the connect of  *)
(* the present session.                                                    *)
C37_PdLimitFromThisSession ==
    (EngineRan /\ anx.port_pwr_opmode = "PD") => anx.limit_since_connect

(* the engine programs 3000 mA for a partner that sent no source           *)
(* capabilities in this session                                            *)
C37_Witness ==
    /\ EngineRan
    /\ anx.pd_capable
    /\ anx.port_pwr_opmode = "PD"
    /\ ~anx.limit_since_connect
    /\ anx.pd_current_limit = 3000
    /\ anx.input_current_limit = 3000
    /\ anx.psy_icl = 3000 * 1000

(* the deadline of the engine is armed in a session *)
DeadlineArmed ==
    "CONNECTED" \in anx.flags /\ anx.current_update_deadline # 0

(* the last step armed the deadline: a connect that completed, a source-   *)
(* capability report that was evaluated, or the Hard-Reset of a PD partner *)
Rearmed ==
    \/ ConnectCompleted
    \/ Interpreted(hist, MSG_PWR_SRC_CAP) /\ hist.pd_ret = 0
                                          /\ anx.current_update_deadline > Now
    \/ Interpreted(hist, MSG_HARD_RST) /\ anx.current_update_deadline > Now

(* the last step was a worker run in which the engine wrote ONLINE = 1 *)
BroughtOnline ==
    /\ hist.act = "work"
    /\ EngineRan
    /\ Did(hist, "psy_online")
    /\ hist.upd_env.online_ret = 0 => anx.psy_online = 1

(* the input path is offline by the Hard-Reset of a PD partner *)
OfflineByHardReset ==
    DeadlineArmed /\ anx.pd_capable /\ anx.psy_online = 0

(* C38: an armed deadline in a session leads to a worker run in which the  *)
(* engine runs and switches the input path on, unless the session ends or  *)
(* the deadline is armed again first; so does an input path taken offline  *)
(* by a Hard-Reset.                                                        *)
C38_DeadlineLeadsToEngine ==
    /\ DeadlineArmed
           ~> (BroughtOnline \/ "CONNECTED" \notin anx.flags \/ Rearmed)
    /\ (OfflineByHardReset /\ ~Rearmed)
           ~> (BroughtOnline \/ "CONNECTED" \notin anx.flags \/ Rearmed)

(* the engine has switched on the input path of a PD partner whose         *)
(* deadline had passed                                                     *)
C38_Witness ==
    /\ BroughtOnline
    /\ "CONNECTED" \in anx.flags
    /\ anx.pd_capable
    /\ anx.psy_online = 1
    /\ anx.current_update_deadline = 0
    /\ ~Rearmed

----------------------------------------------------------------------------
(* Claims about shutdown                                                   *)

(* remove has cancelled the timer and the deferred work *)
Cancelled == rm_pc \in {"cancelled", "done"}

(* C39: once remove has cancelled the timer and the deferred work, the     *)
(* work is never pending or running again, and after remove has returned   *)
(* no worker step, no connect and no powered chip is seen.                 *)
C39_NoWorkAfterCancel ==
    /\ Cancelled => work_pending = "idle" /\ work_pc = "idle" /\ ~timer_armed
    /\ rm_pc = "done" =>
           /\ hist.act # "work"
           /\ ~ConnectRan
           /\ "POWERED" \notin anx.flags
           /\ "CONNECTED" \notin anx.flags

(* the worker has connected after remove returned *)
C39_Witness ==
    /\ rm_pc = "done"
    /\ hist.act = "work"
    /\ ConnectRan
    /\ ConnectCompleted
    /\ "CONNECTED" \in anx.flags
    /\ "POWERED" \in anx.flags
    /\ ~timer_armed
    /\ ~nb_registered

----------------------------------------------------------------------------
(* Claims about the width of the limit                                     *)

(* C40: for register bytes p (max power) and v (max voltage) with v # 0    *)
(* the limit p * 5000 / v is computed without overflow of a signed 32-bit  *)
(* int, and so is the microamp value limit * 1000 the engine programs; a   *)
(* max-voltage value of 0 is rejected with -EINVAL and no limit is         *)
(* computed.                                                               *)
C40_LimitFitsInt ==
    [][ /\ Interpreted(hist', MSG_PWR_SRC_CAP) =>
              LET p == hist'.recv_env.max_p
                  v == hist'.recv_env.max_v
              IN  IF v = 0
                  THEN /\ hist'.pd_ret = EINVAL
                       /\ anx'.pd_current_limit = anx.pd_current_limit
                       /\ anx'.limit_since_connect = anx.limit_since_connect
                       /\ anx'.current_update_deadline = anx.current_update_deadline
                  ELSE /\ p <= Int32Max \div 5000
                       /\ anx'.pd_current_limit = (p * 5000) \div v
                       /\ anx'.pd_current_limit >= 0
                       /\ anx'.pd_current_limit <= Int32Max \div 1000
        /\ (Did(hist', "current_update") /\ anx.pd_capable) =>
              /\ anx'.input_current_limit = anx.pd_current_limit
              /\ anx'.input_current_limit <= Int32Max \div 1000
              /\ anx'.input_current_limit # 0 =>
                     /\ anx'.psy_icl > 0
                     /\ anx'.psy_icl \div 1000 = anx'.input_current_limit
                     /\ anx'.psy_icl % 1000 = 0 ]_vars

(* the largest limit: max power 255, max voltage 1 *)
C40_Witness ==
    /\ EngineRan
    /\ anx.pd_capable
    /\ anx.pd_current_limit = 1275000
    /\ anx.input_current_limit = 1275000
    /\ anx.psy_icl = 1275000000
    /\ anx.psy_icl <= Int32Max

====
